---- MODULE Spec2Model ----
(***************************************************************************)
(* Valuation-and-scenario engine of the IBKR portfolio impact analyzer:    *)
(* the Black-Scholes pricer (valuation/black_scholes.py), the beta-        *)
(* weighted IV model (scenario/iv_model.py) and the portfolio aggregator   *)
(* (valuation/portfolio_aggregation.py) over Position records              *)
(* (data_collection/position.py).                                          *)
(*                                                                         *)
(* Numbers.  The program computes in binary floating point; the model      *)
(* computes in fixed point:                                                *)
(*   money (prices, strikes, values, P&L)   ticks of 1/10000               *)
(*   volatilities, rates, d1/d2, N(d), years  units of 1/10000             *)
(*   scenario multipliers, spot_change        hundredths (percent)         *)
(*   betas                                    tenths                       *)
(*   time to expiry                           whole days (years * 365)     *)
(* Comparisons against the program's thresholds are exact on these grids.  *)
(***************************************************************************)
EXTENDS Integers, Sequences, FiniteSets, TLC

(***************************************************************************)
(* Fixed-point helpers                                                     *)
(***************************************************************************)
Scale == 10^4
Hundred == 10^2
DaysPerYear == 365

Abs(x) == IF x < 0 THEN -x ELSE x
Max(a, b) == IF a >= b THEN a ELSE b
Min(a, b) == IF a <= b THEN a ELSE b

\* a / b rounded toward zero (b # 0)
Div(a, b) ==
    IF (a >= 0) = (b > 0) THEN Abs(a) \div Abs(b) ELSE -(Abs(a) \div Abs(b))

\* a * f / Scale without leaving 32 bits
MulScale(a, f) ==
    LET m == (Abs(a) \div Scale) * Abs(f) + ((Abs(a) % Scale) * Abs(f)) \div Scale
    IN  IF (a >= 0) = (f >= 0) THEN m ELSE -m

RECURSIVE SqrtSearch(_, _, _)
SqrtSearch(n, lo, hi) ==
    IF lo >= hi THEN lo
    ELSE LET mid == (lo + hi + 1) \div 2
         IN  IF mid * mid <= n THEN SqrtSearch(n, mid, hi)
             ELSE SqrtSearch(n, lo, mid - 1)

\* floor(sqrt(n)) for 0 <= n < 2^31
ISqrt(n) == SqrtSearch(n, 0, 46340)

\* np.sqrt(time_to_expiry), time_to_expiry = days/365, scaled by Scale
SqrtYears(days) == ISqrt(days * ((Scale * Scale) \div DaysPerYear))

\* time_to_expiry in years, scaled by Scale
Years(days) == (days * Scale) \div DaysPerYear

\* 1 + x + x^2/2 + x^3/6 + x^4/24 with x2 = x^2
ExpSeries(x, x2) ==
    Scale + x + Div(x2, 2) + Div(MulScale(x2, x), 6) + Div(MulScale(x2, x2), 24)

\* np.exp(x) for |x| < 1/2 (x scaled by Scale): Taylor series to x^4
Exp(x) == ExpSeries(x, MulScale(x, x))

\* 2 * (y + y^3/3 + y^5/5 + y^7/7) with y2 = y^2
AtanhSeries(y, y2) ==
    2 * (y + MulScale(y, Div(y2, 3)
                         + MulScale(y2, Div(y2, 5) + Div(MulScale(y2, y2), 7))))

\* np.log(x) for x >= 1 (x scaled by Scale): halve or double into
\* [0.7071, 1.4142), then 2*atanh((x-1)/(x+1))
RECURSIVE LnScaled(_)
LnScaled(x) ==
    IF x >= 14142 THEN 6931 + LnScaled(x \div 2)
    ELSE IF x < 7071 THEN LnScaled(2 * x) - 6931
    ELSE LET y == Div((x - Scale) * Scale, x + Scale)
         IN  AtanhSeries(y, MulScale(y, y))

\* a / b scaled by Scale, for a >= 0 and b > 0 in ticks
RECURSIVE Ratio(_, _)
Ratio(a, b) ==
    IF b > 10 * Scale THEN Ratio(a \div 10, b \div 10)
    ELSE (a \div b) * Scale + ((a % b) * Scale) \div b

\* scipy.stats.norm.cdf on the grid 0.0, 0.1, ..., 4.0 (scaled by Scale)
NormCdfTable ==
    << 5000, 5398, 5793, 6179, 6554, 6915, 7257, 7580, 7881, 8159,
       8413, 8643, 8849, 9032, 9192, 9332, 9452, 9554, 9641, 9713,
       9772, 9821, 9861, 9893, 9918, 9938, 9953, 9965, 9974, 9981,
       9987, 9990, 9993, 9995, 9997, 9998, 9998, 9999, 9999, 10000, 10000 >>

\* norm.cdf(a) for a >= 0, a scaled by Scale: linear interpolation in the table
NormCdfUpper(i, f) ==
    IF i >= 40 THEN Scale
    ELSE NormCdfTable[i + 1]
         + ((NormCdfTable[i + 2] - NormCdfTable[i + 1]) * f) \div 1000

\* norm.cdf(d), d scaled by Scale
NormCdf(d) ==
    IF d >= 0 THEN NormCdfUpper(d \div 1000, d % 1000)
    ELSE Scale - NormCdfUpper((-d) \div 1000, (-d) % 1000)

(***************************************************************************)
(* BlackScholesCalculator (valuation/black_scholes.py)                     *)
(***************************************************************************)
RiskFreeRate == 500
DefaultVolatility == 3000
BatchVolatilityFloor == 100
DMax == 10 * Scale

Returned(v) == [raised |-> FALSE, price |-> v]
Raised == [raised |-> TRUE, price |-> 0]

\* The intrinsic value with the option type ignored
IntrinsicValueOfPut(spot, strike, option_type) == Max(0, strike - spot)

\* max(0, spot - strike) for a call, max(0, strike - spot) for a put
IntrinsicValue(spot, strike, option_type) ==
    IF option_type = "C" THEN Max(0, spot - strike) ELSE Max(0, strike - spot)

\* volatility * np.sqrt(time_to_expiry), kept above zero
VolSqrtT(days, volatility) == Max(1, MulScale(volatility, SqrtYears(days)))

\* num / den, clamped to +-DMax where norm.cdf is flat
ClampedQuotient(num, den) ==
    IF Abs(num) >= 10 * den THEN (IF num >= 0 THEN DMax ELSE -DMax)
    ELSE Div(num * Scale, den)

\* np.log(spot / strike) + (r - q + 0.5 * volatility**2) * time_to_expiry
D1Numerator(spot, strike, days, volatility, dividend_yield) ==
    LnScaled(Max(1, Ratio(Abs(spot), Abs(strike))))
    + MulScale(RiskFreeRate - dividend_yield
               + Div(MulScale(volatility, volatility), 2), Years(days))

\* d1 of the closed form
D1(spot, strike, days, volatility, dividend_yield) ==
    ClampedQuotient(D1Numerator(spot, strike, days, volatility, dividend_yield),
                    VolSqrtT(days, volatility))

\* The call and put formulas from d1, d2 and the discounted spot and strike
PriceFromD(option_type, s, k, d1, d2) ==
    IF option_type = "C"
    THEN MulScale(s, NormCdf(d1)) - MulScale(k, NormCdf(d2))
    ELSE MulScale(k, NormCdf(-d2)) - MulScale(s, NormCdf(-d1))

\* d2 = d1 - volatility * sqrt(T), and the discounting
PriceFromD1(spot, strike, days, volatility, option_type, dividend_yield, d1) ==
    PriceFromD(option_type,
               MulScale(spot, Exp(-MulScale(dividend_yield, Years(days)))),
               MulScale(strike, Exp(-MulScale(RiskFreeRate, Years(days)))),
               d1, d1 - VolSqrtT(days, volatility))

\* The call and put formulas, for spot/strike > 0, volatility > 0, days > 0
ClosedFormPrice(spot, strike, days, volatility, option_type, dividend_yield) ==
    PriceFromD1(spot, strike, days, volatility, option_type, dividend_yield,
                D1(spot, strike, days, volatility, dividend_yield))

\* The formulas where np.log(spot / strike) is -inf (spot = 0): d1 = d2 = -inf
PriceAtZeroSpot(strike, days, option_type) ==
    IF option_type = "C" THEN 0
    ELSE MulScale(strike, Exp(-MulScale(RiskFreeRate, Years(days))))

\* The formulas where spots / strikes is +inf (numpy only: strike = 0 < spot)
PriceAtZeroStrike(spot, days, option_type, dividend_yield) ==
    IF option_type = "C"
    THEN MulScale(spot, Exp(-MulScale(dividend_yield, Years(days))))
    ELSE 0

\* np.log of a negative number, or of 0/0, is nan
LogIsNan(spot, strike) ==
    \/ spot < 0 /\ strike > 0
    \/ spot > 0 /\ strike < 0
    \/ spot = 0 /\ strike = 0

\* calculate_option_price: [raised, price]
CalculateOptionPrice(spot, strike, days, volatility, option_type, dividend_yield) ==
    IF days <= 0 THEN Returned(IntrinsicValue(spot, strike, option_type))
    ELSE IF strike = 0 THEN Raised                \* spot / strike: ZeroDivisionError
    ELSE IF LogIsNan(spot, strike) THEN Returned(0)   \* max(0, nan) is 0
    ELSE IF spot = 0 THEN Returned(Max(0, PriceAtZeroSpot(strike, days, option_type)))
    ELSE Returned(Max(0, ClosedFormPrice(spot, strike, days,
                         IF volatility <= 0 THEN DefaultVolatility ELSE volatility,
                         option_type, dividend_yield)))

\* One entry of calculate_batch: [nan, price]; numpy divides by zero silently
\* and np.maximum(0, nan) is nan
BatchEntry(spot, strike, days, volatility, option_type, dividend_yield) ==
    IF days <= 0
    THEN [nan |-> FALSE, price |-> Max(0, IntrinsicValue(spot, strike, option_type))]
    ELSE IF LogIsNan(spot, strike) THEN [nan |-> TRUE, price |-> 0]
    ELSE IF strike = 0
    THEN [nan |-> FALSE,
          price |-> Max(0, PriceAtZeroStrike(spot, days, option_type, dividend_yield))]
    ELSE IF spot = 0
    THEN [nan |-> FALSE, price |-> Max(0, PriceAtZeroSpot(strike, days, option_type))]
    ELSE [nan |-> FALSE,
          price |-> Max(0, ClosedFormPrice(spot, strike, days,
                               Max(volatility, BatchVolatilityFloor),
                               option_type, dividend_yield))]

\* calculate_batch over equal-length arrays (None dividend_yields: zeros)
CalculateBatch(spots, strikes, times_to_expiry, volatilities, option_types, dividend_yields) ==
    [i \in 1..Len(spots) |->
        BatchEntry(spots[i], strikes[i], times_to_expiry[i], volatilities[i],
                   option_types[i], dividend_yields[i])]

\* scipy.stats.norm.pdf on the grid 0.0, 0.1, ..., 4.0 (scaled by Scale)
NormPdfTable ==
    << 3989, 3970, 3910, 3814, 3683, 3521, 3332, 3123, 2897, 2661,
       2420, 2179, 1942, 1714, 1497, 1295, 1109, 940, 790, 656,
       540, 440, 355, 283, 224, 175, 136, 104, 79, 60,
       44, 33, 24, 17, 12, 9, 6, 4, 3, 2, 1 >>

\* norm.pdf(a) for a >= 0, a scaled by Scale: linear interpolation in the table
NormPdfUpper(i, f) ==
    IF i >= 40 THEN 0
    ELSE NormPdfTable[i + 1]
         - ((NormPdfTable[i + 1] - NormPdfTable[i + 2]) * f) \div 1000

\* norm.pdf(d), d scaled by Scale
NormPdf(d) == NormPdfUpper(Abs(d) \div 1000, Abs(d) % 1000)

\* |d1| in tenths from which norm.pdf(d1) is 0.0 in double arithmetic
PdfUnderflow == 386

\* norm.pdf(num / den) == 0.0
PdfIsZero(num, den) == 10 * Abs(num) >= PdfUnderflow * den

\* spot * exp(-q*T) * norm.pdf(d1) * sqrt_t: zero where the density is 0.0,
\* and at least one unit where it is positive in the program
VegaFromD(spot, days, dividend_yield, num, den) ==
    IF PdfIsZero(num, den) THEN 0
    ELSE Max(1, MulScale(MulScale(MulScale(spot,
                                           Exp(-MulScale(dividend_yield, Years(days)))),
                                  NormPdf(ClampedQuotient(num, den))),
                         SqrtYears(days)))

\* calculate_greeks(...)['vega'] * 100, for spot and strike > 0: the change of
\* the price per unit of volatility
CalculateVega(spot, strike, days, volatility, dividend_yield) ==
    IF days <= 0 THEN 0
    ELSE VegaFromD(spot, days, dividend_yield,
                   D1Numerator(spot, strike, days,
                               IF volatility <= 0 THEN DefaultVolatility
                               ELSE volatility,
                               dividend_yield),
                   VolSqrtT(days, IF volatility <= 0 THEN DefaultVolatility
                                  ELSE volatility))

SolverSeed == 3000
SolverFloor == 100
SolverCap == 30000
Tolerance == 10

\* a / b scaled by Scale, for 0 <= a < SolverCap * b / Scale
Quotient(a, b) ==
    (a \div b) * Scale + (((a % b) * Hundred) \div b) * Hundred
        + ((((a % b) * Hundred) % b) * Hundred) \div b

\* price_diff / vega, cut off at +-3.0 where the bounds of the next line take
\* over whatever the iterate is
NewtonStep(price_diff, vega) ==
    IF Abs(price_diff) \div vega >= SolverCap \div Scale
    THEN (IF price_diff > 0 THEN SolverCap ELSE -SolverCap)
    ELSE IF price_diff >= 0 THEN Quotient(price_diff, vega)
    ELSE -Quotient(-price_diff, vega)

\* The Newton-Raphson update without the bounds
NewtonUpdateUnbounded(iv, price_diff, vega) == iv + NewtonStep(price_diff, vega)

\* iv = iv + price_diff / vega; iv = max(0.01, min(3.0, iv))
NewtonUpdate(iv, price_diff, vega) ==
    Max(SolverFloor, Min(SolverCap, iv + NewtonStep(price_diff, vega)))

\* One pass of the loop body of calculate_implied_volatility at iterate iv,
\* for spot and strike > 0: the iterate, the price difference and the vega
Evaluation(a, iv) ==
    [iv |-> iv,
     price_diff |-> a.option_price
                    - CalculateOptionPrice(a.spot, a.strike, a.days, iv,
                                           a.option_type, a.dividend_yield).price,
     vega |-> CalculateVega(a.spot, a.strike, a.days, iv, a.dividend_yield)]

(***************************************************************************)
(* Python values                                                           *)
(***************************************************************************)
\* dict.get(key, default); a dict is a function, None an absent key
Get(d, key, default) == IF key \in DOMAIN d THEN d[key] ELSE default
IsNone(obj, attr) == attr \notin DOMAIN obj
EmptyDict == << >>

(***************************************************************************)
(* Position (data_collection/position.py)                                  *)
(***************************************************************************)
DefaultContractMultiplier == 100

\* update_position_value, as run by __post_init__
PositionValue(p) ==
    IF p.is_option THEN p.current_price * p.quantity * p.contract_multiplier
    ELSE p.current_price * p.quantity

\* days_to_expiration: (expiration - datetime.now()).days, None without an
\* expiration; datetimes count half days, timedelta.days floors
DaysToExpiration(p, clock) ==
    IF p.is_option /\ ~IsNone(p, "expiration")
    THEN << (p.expiration - clock) \div 2 >>
    ELSE << >>

(***************************************************************************)
(* IVModel and IVShiftCalculator (scenario/iv_model.py)                    *)
(***************************************************************************)
IvFloor == 100
IvCap == 30000
DefaultIv == 3000
DefaultDte == 30

\* a / b < num / 100, as the float comparison decides it (b # 0)
RatioBelow(a, b, num) ==
    IF b > 0 THEN Hundred * a < num * b ELSE Hundred * a > num * b

\* get_moneyness_beta of moneyness = a / b, in tenths
GetMoneynessBeta(a, b) ==
    IF RatioBelow(a, b, 95) THEN 13
    ELSE IF RatioBelow(a, b, 98) THEN 12
    ELSE IF RatioBelow(a, b, 102) THEN 10
    ELSE IF RatioBelow(a, b, 105) THEN 9
    ELSE 8

\* The time beta with every bucket ending one day early
GetTimeBetaExclusive(dte) ==
    IF dte < 7 THEN 15
    ELSE IF dte < 30 THEN 10
    ELSE IF dte < 90 THEN 7
    ELSE 5

\* get_time_beta, in tenths
GetTimeBeta(dte) ==
    IF dte <= 7 THEN 15
    ELSE IF dte <= 30 THEN 10
    ELSE IF dte <= 90 THEN 7
    ELSE 5

ClampIv(iv) == Max(IvFloor, Min(IvCap, iv))

\* calculate_iv_shift(base_iv, moneyness = a / b, dte, scenario_multiplier)
CalculateIvShift(base_iv, a, b, dte, scenario_multiplier) ==
    ClampIv(Div(base_iv * (Scale + scenario_multiplier * GetMoneynessBeta(a, b)
                                   * GetTimeBeta(dte)), Scale))

\* the dte_scaling key of a DTE
DteBucket(dte) ==
    IF dte <= 7 THEN "0-7"
    ELSE IF dte <= 30 THEN "8-30"
    ELSE IF dte <= 90 THEN "31-90"
    ELSE "90+"

\* The iv_change calculate_scenario_iv applies
ScenarioIvChange(dte, iv_change_base, dte_scaling) ==
    IF DOMAIN dte_scaling # {}
    THEN Get(dte_scaling, DteBucket(dte), iv_change_base)
    ELSE iv_change_base

\* calculate_scenario_iv(base_iv, dte, scenario_params)
CalculateScenarioIv(base_iv, dte, scenario_params) ==
    ClampIv(Div(base_iv * (Hundred
                           + ScenarioIvChange(dte,
                                 Get(scenario_params, "iv_change", 0),
                                 Get(scenario_params, "dte_scaling", EmptyDict))),
                Hundred))

\* Moneyness taken as spot / strike on both sides
MoneynessRatioSpotOverStrike(p, underlying_price) == << underlying_price, p.strike >>

\* The moneyness ratio of calculate_position_iv as << numerator, denominator >>
MoneynessRatio(p, underlying_price) ==
    IF Get(p, "option_type", "None") = "C"
    THEN << underlying_price, p.strike >>
    ELSE << p.strike, underlying_price >>

\* Whether computing the moneyness raises: a None strike (TypeError) or a
\* zero denominator (ZeroDivisionError)
MoneynessRaises(p, underlying_price) ==
    \/ IsNone(p, "strike")
    \/ MoneynessRatio(p, underlying_price)[2] = 0

\* The option category of moneyness m[1] / m[2]
CategoryOf(m, put) ==
    IF RatioBelow(m[1], m[2], 95) THEN (IF put THEN "OTM_PUT" ELSE "OTM_CALL")
    ELSE IF RatioBelow(m[1], m[2], 105) THEN "ATM"
    ELSE (IF put THEN "ITM_PUT" ELSE "ITM_CALL")

\* The option category of calculate_position_iv
OptionCategory(p, underlying_price) ==
    CategoryOf(MoneynessRatio(p, underlying_price),
               Get(p, "option_type", "None") = "P")

\* position.days_to_expiration(), 30 when it is None
DteOrDefault(d) == IF d = << >> THEN DefaultDte ELSE d[1]

\* The tiers of calculate_position_iv
ResolveIv(base_iv, dte, m, option_category, iv_multipliers, scenario_params) ==
    IF option_category \in DOMAIN iv_multipliers
    THEN CalculateIvShift(base_iv, m[1], m[2], dte, iv_multipliers[option_category])
    ELSE IF "default" \in DOMAIN iv_multipliers
    THEN CalculateIvShift(base_iv, m[1], m[2], dte, iv_multipliers["default"])
    ELSE CalculateScenarioIv(base_iv, dte, scenario_params)

\* calculate_position_iv for an option whose moneyness can be computed
CalculatePositionIv(p, scenario_params, underlying_price, clock) ==
    ResolveIv(Get(p, "implied_volatility", DefaultIv),
              DteOrDefault(DaysToExpiration(p, clock)),
              MoneynessRatio(p, underlying_price),
              OptionCategory(p, underlying_price),
              Get(scenario_params, "iv_multipliers", EmptyDict),
              scenario_params)

(***************************************************************************)
(* PortfolioAggregator (valuation/portfolio_aggregation.py)                *)
(***************************************************************************)
RECURSIVE SeqSum(_)
SeqSum(s) == IF s = << >> THEN 0 ELSE Head(s) + SeqSum(Tail(s))

\* One option Greek taken per contract, whatever the quantity and multiplier
OptionGreekPerContract(p, greek) ==
    IF p.is_option /\ ~IsNone(p, greek) THEN p[greek] ELSE 0

\* One option Greek weighted by quantity and multiplier; None adds nothing
OptionGreek(p, greek) ==
    IF p.is_option /\ ~IsNone(p, greek)
    THEN p[greek] * p.quantity * p.contract_multiplier
    ELSE 0

\* calculate_current_portfolio_value (Greeks in hundredths)
CalculateCurrentPortfolioValue(ps) ==
    LET Sum(F(_)) == SeqSum([i \in 1..Len(ps) |-> F(ps[i])])
        Value(p)       == p.position_value
        StockValue(p)  == IF p.is_option THEN 0 ELSE p.position_value
        OptionValue(p) == IF p.is_option THEN p.position_value ELSE 0
        Delta(p) == IF p.is_option THEN OptionGreek(p, "delta")
                    ELSE p.quantity * Hundred
        Gamma(p) == OptionGreek(p, "gamma")
        Theta(p) == OptionGreek(p, "theta")
        Vega(p)  == OptionGreek(p, "vega")
        Rho(p)   == OptionGreek(p, "rho")
    IN  [ total_value  |-> Sum(Value),
          stock_value  |-> Sum(StockValue),
          option_value |-> Sum(OptionValue),
          delta |-> Sum(Delta),
          gamma |-> Sum(Gamma),
          theta |-> Sum(Theta),
          vega  |-> Sum(Vega),
          rho   |-> Sum(Rho) ]

\* price * (1 + spot_change)
Shocked(price, spot_change) == Div(price * (Hundred + spot_change), Hundred)

\* The key of a position in underlying_prices
PriceKey(p) == IF p.is_option THEN Get(p, "underlying", "None") ELSE p.symbol

\* One pass of the first loop: an option sets its underlying's price only if
\* none is there yet, a stock always sets its symbol's
WithPriceOf(prices, p, k, spot_change) ==
    IF p.is_option /\ k \in DOMAIN prices THEN prices
    ELSE (k :> Shocked(p.current_price, spot_change)) @@ prices

\* underlying_prices after the first loop of run_scenario has seen ps[i..]
RECURSIVE UnderlyingPrices(_, _, _, _)
UnderlyingPrices(ps, spot_change, i, prices) ==
    IF i > Len(ps) THEN prices
    ELSE UnderlyingPrices(ps, spot_change, i + 1,
                          WithPriceOf(prices, ps[i], PriceKey(ps[i]), spot_change))

ValueReturned(v) == [raised |-> FALSE, value |-> v]
ValueRaised == [raised |-> TRUE, value |-> 0]

\* new_price, or the position's own shocked price when it is None
PriceOrFallback(p, scenario, new_price) ==
    IF new_price = << >>
    THEN Shocked(p.current_price, Get(scenario, "spot_change", 0))
    ELSE new_price[1]

\* _calculate_stock_scenario_value
CalculateStockScenarioValue(p, scenario, new_price) ==
    ValueReturned(PriceOrFallback(p, scenario, new_price) * p.quantity)

\* new_price * quantity * contract_multiplier, unless pricing raised
OptionValueOf(p, new_price) ==
    IF new_price.raised THEN ValueRaised
    ELSE ValueReturned(new_price.price * p.quantity * p.contract_multiplier)

\* _calculate_option_scenario_value at underlying price u
OptionValueAt(p, scenario, u, clock) ==
    IF MoneynessRaises(p, u) THEN ValueRaised
    ELSE OptionValueOf(p,
            CalculateOptionPrice(
                u, p.strike,
                Max(0, DteOrDefault(DaysToExpiration(p, clock))
                       - Get(scenario, "days_pass", 0)),
                CalculatePositionIv(p, scenario, u, clock),
                p.option_type, 0))

\* _calculate_option_scenario_value: [raised, value]
CalculateOptionScenarioValue(p, scenario, new_underlying_price, clock) ==
    OptionValueAt(p, scenario, PriceOrFallback(p, scenario, new_underlying_price),
                  clock)

\* underlying_prices.get(key)
PriceLookup(prices, k) == IF k \in DOMAIN prices THEN << prices[k] >> ELSE << >>

\* The body of the try of the second loop, for one position
ScenarioValue(p, scenario, prices, clock) ==
    IF p.is_option
    THEN CalculateOptionScenarioValue(p, scenario, PriceLookup(prices, PriceKey(p)),
                                      clock)
    ELSE CalculateStockScenarioValue(p, scenario, PriceLookup(prices, PriceKey(p)))

\* pnl / base * 100 if base != 0 else 0, in whole percent
Percent(pnl, base) ==
    IF base = 0 THEN 0
    ELSE IF base % Hundred = 0 THEN Div(pnl, base \div Hundred)
    ELSE Div(pnl * Hundred, base)

\* An entry whose pnl is the scenario value itself
PositionResultWithoutCurrent(p, new_value) ==
    [ symbol |-> p.symbol,
      type |-> IF p.is_option THEN "OPTION" ELSE "STOCK",
      current_value |-> p.position_value,
      scenario_value |-> new_value,
      pnl |-> new_value,
      pnl_percent |-> Percent(new_value, p.position_value) ]

\* The position_results entry of a repriced position
PositionResult(p, new_value) ==
    [ symbol |-> p.symbol,
      type |-> IF p.is_option THEN "OPTION" ELSE "STOCK",
      current_value |-> p.position_value,
      scenario_value |-> new_value,
      pnl |-> new_value - p.position_value,
      pnl_percent |-> Percent(new_value - p.position_value, p.position_value) ]

\* A second loop whose except branch drops the position from the total
RevalueSkippingFailed(acc, p, v) ==
    IF v.raised THEN acc
    ELSE [ new_total_value |-> acc.new_total_value + v.value,
           position_results |->
               Append(acc.position_results, PositionResult(p, v.value)) ]

\* One pass of the second loop: the except branch adds the current value
Revalue(acc, p, v) ==
    IF v.raised
    THEN [acc EXCEPT !.new_total_value = @ + p.position_value]
    ELSE [ new_total_value |-> acc.new_total_value + v.value,
           position_results |->
               Append(acc.position_results, PositionResult(p, v.value)) ]

\* The second loop of run_scenario from ps[i] on:
\* acc = [new_total_value, position_results]
RECURSIVE RevalueLoop(_, _, _, _, _, _)
RevalueLoop(ps, scenario, prices, clock, i, acc) ==
    IF i > Len(ps) THEN acc
    ELSE RevalueLoop(ps, scenario, prices, clock, i + 1,
                     Revalue(acc, ps[i], ScenarioValue(ps[i], scenario, prices, clock)))

\* e put behind the entries of the sorted srt whose pnl is not above its own
InsertByPnl(srt, e, k) ==
    SubSeq(srt, 1, k) \o << e >> \o SubSeq(srt, k + 1, Len(srt))

CountNotAbove(srt, e) == Cardinality({j \in 1..Len(srt) : srt[j].pnl <= e.pnl})

InsertSorted(srt, e) == InsertByPnl(srt, e, CountNotAbove(srt, e))

\* sorted(position_results, key = pnl): stable
RECURSIVE SortedByPnl(_)
SortedByPnl(rs) ==
    IF rs = << >> THEN << >>
    ELSE InsertSorted(SortedByPnl(SubSeq(rs, 1, Len(rs) - 1)), rs[Len(rs)])

WorstOf(sorted_results) ==
    IF sorted_results = << >> THEN << >> ELSE << sorted_results[1] >>

BestOf(sorted_results) ==
    IF sorted_results = << >> THEN << >>
    ELSE << sorted_results[Len(sorted_results)] >>

\* The dict run_scenario returns
ScenarioResult(scenario, current_metrics, loop, sorted_results) ==
    [ scenario_name |-> Get(scenario, "name", "Unknown"),
      current_portfolio_value |-> current_metrics.total_value,
      scenario_portfolio_value |-> loop.new_total_value,
      portfolio_pnl |-> loop.new_total_value - current_metrics.total_value,
      portfolio_pnl_percent |->
          Percent(loop.new_total_value - current_metrics.total_value,
                  current_metrics.total_value),
      worst_position |-> WorstOf(sorted_results),
      best_position |-> BestOf(sorted_results),
      position_results |-> loop.position_results,
      current_metrics |-> current_metrics ]

\* Both ends of the sorted position results
WithSorted(scenario, current_metrics, loop) ==
    ScenarioResult(scenario, current_metrics, loop,
                   SortedByPnl(loop.position_results))

\* run_scenario on a scenario dict
RunScenarioResult(ps, scenario, clock) ==
    WithSorted(scenario, CalculateCurrentPortfolioValue(ps),
               RevalueLoop(ps, scenario,
                   UnderlyingPrices(ps, Get(scenario, "spot_change", 0), 1, EmptyDict),
                   clock, 1,
                   [new_total_value |-> 0, position_results |-> << >>]))

\* pnls_sorted[index], as Python indexes a list of length n: a negative index
\* counts from the end, one below -n is an IndexError; index >= n: pnls_sorted[0]
VarAt(srt, n, index) ==
    IF index >= n THEN ValueReturned(srt[1].pnl)
    ELSE IF index >= 0 THEN ValueReturned(srt[index + 1].pnl)
    ELSE IF index >= -n THEN ValueReturned(srt[n + index + 1].pnl)
    ELSE ValueRaised

\* calculate_var on the list of portfolio P&Ls, confidence in percent:
\* [raised, value]
CalculateVar(pnls, confidence) ==
    IF pnls = << >> THEN ValueReturned(0)
    ELSE VarAt(SortedByPnl([i \in 1..Len(pnls) |-> [pnl |-> pnls[i]]]),
               Len(pnls),
               Div((Hundred - confidence) * Len(pnls), Hundred))

(***************************************************************************)
(* ScenarioTemplates (scenario/scenario_templates.py), in percent          *)
(***************************************************************************)
NormalDay ==
    [name |-> "Normal Day", spot_change |-> 0, iv_change |-> 0, days_pass |-> 0]

EarningsBeat ==
    [name |-> "Earnings Beat", spot_change |-> 5,
     dte_scaling |-> ("0-7" :> -35) @@ ("8-30" :> -15) @@ ("31-90" :> -5)
                     @@ ("90+" :> 0),
     days_pass |-> 1]

MarketPanic ==
    [name |-> "Market Panic", spot_change |-> -5,
     iv_multipliers |-> [OTM_PUT |-> 60, ATM |-> 35, OTM_CALL |-> 25,
                         default |-> 35],
     days_pass |-> 0]

FedHawkish ==
    [name |-> "Fed Hawkish", spot_change |-> -2, iv_change |-> 20, days_pass |-> 0]

EarningsMiss ==
    [name |-> "Earnings Miss", spot_change |-> -8,
     dte_scaling |-> ("0-7" :> -30) @@ ("8-30" :> -10) @@ ("31-90" :> 0)
                     @@ ("90+" :> 0),
     days_pass |-> 1]

EarningsInline ==
    [name |-> "Earnings Inline", spot_change |-> 0,
     dte_scaling |-> ("0-7" :> -40) @@ ("8-30" :> -20) @@ ("31-90" :> -5)
                     @@ ("90+" :> 0),
     days_pass |-> 1]

FlashCrash ==
    [name |-> "Flash Crash", spot_change |-> -8,
     iv_multipliers |-> [OTM_PUT |-> 100, ATM |-> 50, OTM_CALL |-> 30,
                         default |-> 50],
     days_pass |-> 0]

BlackSwan ==
    [name |-> "Black Swan", spot_change |-> -20,
     iv_multipliers |-> [OTM_PUT |-> 150, ATM |-> 150, OTM_CALL |-> 150,
                         ITM_PUT |-> 150, ITM_CALL |-> 150, default |-> 150],
     days_pass |-> 0]

\* spot_change 0.015, to the nearest whole percent
FedDovish ==
    [name |-> "Fed Dovish", spot_change |-> 2, iv_change |-> -10, days_pass |-> 0]

FedNeutral ==
    [name |-> "Fed Neutral", spot_change |-> 0, iv_change |-> -5, days_pass |-> 0]

ShortSqueeze ==
    [name |-> "Short Squeeze", spot_change |-> 10,
     iv_multipliers |-> [OTM_CALL |-> 30, ATM |-> 10, OTM_PUT |-> -10,
                         default |-> 10],
     days_pass |-> 0]

FomoRally ==
    [name |-> "FOMO Rally", spot_change |-> 5,
     iv_multipliers |-> [OTM_CALL |-> 15, ATM |-> 5, OTM_PUT |-> -20,
                         default |-> 0],
     days_pass |-> 0]

ReliefRally ==
    [name |-> "Relief Rally", spot_change |-> 3, iv_change |-> -15, days_pass |-> 0]

OneDayPass ==
    [name |-> "1 Day Pass", spot_change |-> 0,
     dte_scaling |-> ("0-7" :> -1) @@ ("8-30" :> -1) @@ ("31-90" :> 0)
                     @@ ("90+" :> 0),
     days_pass |-> 1]

Weekend ==
    [name |-> "Weekend", spot_change |-> 0,
     dte_scaling |-> ("0-7" :> -2) @@ ("8-30" :> -1) @@ ("31-90" :> 0)
                     @@ ("90+" :> 0),
     days_pass |-> 3]

OneWeek ==
    [name |-> "1 Week", spot_change |-> 0,
     dte_scaling |-> ("0-7" :> -5) @@ ("8-30" :> -3) @@ ("31-90" :> -1)
                     @@ ("90+" :> 0),
     days_pass |-> 7]

\* The dict literal of get_all_scenarios, in insertion order
Catalog ==
    << [key |-> "Normal Day", params |-> NormalDay],
       [key |-> "Earnings Beat", params |-> EarningsBeat],
       [key |-> "Earnings Miss", params |-> EarningsMiss],
       [key |-> "Earnings Inline", params |-> EarningsInline],
       [key |-> "Market Panic", params |-> MarketPanic],
       [key |-> "Flash Crash", params |-> FlashCrash],
       [key |-> "Black Swan", params |-> BlackSwan],
       [key |-> "Fed Hawkish", params |-> FedHawkish],
       [key |-> "Fed Dovish", params |-> FedDovish],
       [key |-> "Fed Neutral", params |-> FedNeutral],
       [key |-> "Short Squeeze", params |-> ShortSqueeze],
       [key |-> "FOMO Rally", params |-> FomoRally],
       [key |-> "Relief Rally", params |-> ReliefRally],
       [key |-> "1 Day Pass", params |-> OneDayPass],
       [key |-> "Weekend", params |-> Weekend],
       [key |-> "1 Week", params |-> OneWeek] >>

\* A catalog that hands out again the dicts it handed out before
GetAllScenariosCached(held) == IF held # << >> THEN held ELSE Catalog

\* get_all_scenarios: the values of the literal are built by the template
\* functions at every call; the dicts the caller holds from an earlier call
\* have no part in it
GetAllScenarios(held) == Catalog

\* create_custom_scenario; iv_change and iv_multipliers are << >> (None) or
\* << value >>, and an empty iv_multipliers is not stored
CreateCustomScenario(name, spot_change, iv_change, iv_multipliers, days_pass) ==
    LET scenario == [name |-> name, spot_change |-> spot_change,
                     days_pass |-> days_pass]
        with_iv  == IF iv_change # << >>
                    THEN ("iv_change" :> iv_change[1]) @@ scenario
                    ELSE scenario
    IN  IF iv_multipliers # << >> /\ DOMAIN iv_multipliers[1] # {}
        THEN ("iv_multipliers" :> iv_multipliers[1]) @@ with_iv
        ELSE with_iv

(***************************************************************************)
(* The inputs the model draws from                                         *)
(***************************************************************************)
MaxPositions == 3
MaxScenarios == 2

Dollar == Scale

\* Position(symbol, quantity, entry_price, current_price): a stock
Stock(symbol, quantity, price) ==
    LET p == [symbol |-> symbol, quantity |-> quantity, entry_price |-> price,
              current_price |-> price, last_update |-> 0, is_option |-> FALSE,
              contract_multiplier |-> DefaultContractMultiplier,
              position_value |-> 0]
    IN  [p EXCEPT !.position_value = PositionValue(p)]

\* Position(..., is_option = True, ...): `more` holds the optional fields
\* that are not None
Option(symbol, quantity, price, option_type, more) ==
    LET p == more @@
             [symbol |-> symbol, quantity |-> quantity, entry_price |-> price,
              current_price |-> price, last_update |-> 0, is_option |-> TRUE,
              underlying |-> symbol, option_type |-> option_type,
              contract_multiplier |-> DefaultContractMultiplier,
              position_value |-> 0]
    IN  [p EXCEPT !.position_value = PositionValue(p)]

StockAAA == Stock("AAA", 1, 100 * Dollar)
StockBBB == Stock("BBB", 1, 100 * Dollar)

\* The single-leg put of the spec's concrete scenario: strike 100, price 100,
\* IV 0.30, 30 days (60 half days) to expiration, with its Greeks recorded
PutXYZ ==
    Option("XYZ", 1, 100 * Dollar, "P",
           [strike |-> 100 * Dollar, expiration |-> 60,
            implied_volatility |-> 3000,
            delta |-> -50, gamma |-> 3, theta |-> -5, vega |-> 11, rho |-> -4])

\* A call on AAA with neither IV nor expiration nor Greeks recorded
CallAAA == Option("AAA", 2, 3 * Dollar, "C", [strike |-> 105 * Dollar])

\* An option whose strike was never filled in
CallBAD == Option("BAD", 1, 2 * Dollar, "C", [expiration |-> 20])

PositionTemplates == {StockAAA, StockBBB, PutXYZ, CallAAA, CallBAD}

\* A second option on XYZ, quoted at its own premium
CallXYZ ==
    Option("XYZ", 1, 4 * Dollar, "C",
           [strike |-> 100 * Dollar, expiration |-> 60,
            implied_volatility |-> 3000])

RECURSIVE SeqsUpTo(_, _)
SeqsUpTo(S, n) ==
    IF n = 0 THEN {<< >>}
    ELSE LET shorter == SeqsUpTo(S, n - 1)
         IN  shorter \cup {Append(q, x) : q \in {r \in shorter : Len(r) = n - 1},
                                          x \in S}

\* A portfolio holds each position once, in any order
Portfolios ==
    {ps \in SeqsUpTo(PositionTemplates, MaxPositions) :
        \A i, j \in 1..Len(ps) : i # j => ps[i] # ps[j]}

\* Custom scenarios: the spec's concrete one; the same with a uniform
\* iv_change beside it; no change at all; the spot falling to zero; expiry
ConcreteScenario == [name |-> "Concrete", spot_change |-> -5,
                     iv_multipliers |-> [ATM |-> 35]]
MixedScenario == CreateCustomScenario("Mixed", -5, << 20 >>, << [ATM |-> 35] >>, 0)
FlatScenario == CreateCustomScenario("Flat", 0, << >>, << >>, 0)
WipeoutScenario == CreateCustomScenario("Wipeout", -100, << >>, << >>, 0)
ExpiryScenario == CreateCustomScenario("Expiry", 10, << -10 >>, << >>, 40)
WipeoutAtExpiryScenario ==
    CreateCustomScenario("Wipeout at expiry", -100, << >>, << >>, 40)

\* A catalog entry that populates dte_scaling and iv_change together
CrushScenario == [name |-> "Crush", spot_change |-> 5, iv_change |-> 20,
                  dte_scaling |-> ("8-30" :> -15) @@ ("31-90" :> -5),
                  days_pass |-> 0]

ScenarioPool ==
    {NormalDay, EarningsBeat, MarketPanic, FedHawkish, ConcreteScenario,
     MixedScenario, FlatScenario, WipeoutScenario, ExpiryScenario,
     WipeoutAtExpiryScenario, CrushScenario}

\* A scenario argument: << dict >>, or << >> for a None that came from a
\* malformed catalog entry
ScenarioArgs == {<< s >> : s \in ScenarioPool} \cup {<< >>}

\* Entries a scenario mapping is built from
MappingEntries ==
    { [key |-> "Normal Day", params |-> << NormalDay >>],
      [key |-> "Market Panic", params |-> << MarketPanic >>],
      [key |-> "Broken", params |-> << >>] }

\* Ordered mappings (dicts keep insertion order) with distinct keys
ScenarioMappings ==
    {m \in SeqsUpTo(MappingEntries, MaxScenarios) :
        \A i, j \in 1..Len(m) : i # j => m[i].key # m[j].key}

\* Confidence levels in percent; 150 and 250 make the index negative
ConfidenceLevels == {0, 50, 95, 99, 150, 250}

\* The confidence arguments: the levels, and a positive confidence below the
\* resolution of a double next to 1 (1e-17), for which 1 - confidence is
\* exactly 1.0 as it is for confidence 0
ConfidenceArgs ==
    {[percent |-> c, positive |-> c > 0] : c \in ConfidenceLevels}
        \cup {[percent |-> 0, positive |-> TRUE]}

(***************************************************************************)
(* State                                                                   *)
(***************************************************************************)
VARIABLES
    positions,   \* the caller's list of Position records
    now,         \* datetime.now(), in half days
    pc,          \* "idle", or "loop" inside run_multiple_scenarios
    index,       \* run_multiple_scenarios: entries of scenarios.items() done
    results,     \* run_multiple_scenarios: its results dict, in order
    call         \* the latest call: its arguments and, once it returned, its outcome

vars == << positions, now, pc, index, results, call >>

Init ==
    /\ positions \in Portfolios
    /\ now = 0
    /\ pc = "idle"
    /\ index = 0
    /\ results = << >>
    /\ call = [op |-> "none"]

\* run_scenario refusing an empty position list
RunScenarioCallRejectingEmpty(ps, scenario, clock) ==
    IF scenario = << >> \/ ps = << >> THEN [raised |-> TRUE]
    ELSE [raised |-> FALSE, result |-> RunScenarioResult(ps, scenario[1], clock)]

\* run_scenario(positions, scenario): scenario.get raises on a None
RunScenarioCall(ps, scenario, clock) ==
    IF scenario = << >> THEN [raised |-> TRUE]
    ELSE [raised |-> FALSE, result |-> RunScenarioResult(ps, scenario[1], clock)]

\* run_scenario writing each shocked price back into the caller's record
PositionsRepriced(ps, scenario, clock) ==
    IF scenario = << >> THEN ps
    ELSE [i \in 1..Len(ps) |->
            [ps[i] EXCEPT !.current_price =
                              Shocked(@, Get(scenario[1], "spot_change", 0))]]

\* The caller's positions after run_scenario returns or raises: no attribute
\* of a Position is assigned anywhere under run_scenario
PositionsAfterRunScenario(ps, scenario, clock) == ps

\* An except branch that starts the results over
StoreResultStartingOver(results_so_far, key, outcome) ==
    IF outcome.raised THEN << >>
    ELSE Append(results_so_far, [key |-> key, result |-> outcome.result])

\* results[scenario_name] = result, skipped when run_scenario raised
StoreResult(results_so_far, key, outcome) ==
    IF outcome.raised THEN results_so_far
    ELSE Append(results_so_far, [key |-> key, result |-> outcome.result])

\* calculate_current_portfolio_value(positions)
CurrentPortfolioValue ==
    /\ pc = "idle"
    /\ call' = [op |-> "calculate_current_portfolio_value",
                metrics |-> CalculateCurrentPortfolioValue(positions)]
    /\ UNCHANGED << positions, now, pc, index, results >>

\* run_scenario(positions, scenario)
RunScenario ==
    /\ pc = "idle"
    /\ \E scenario \in ScenarioArgs :
        /\ call' = [op |-> "run_scenario", scenario |-> scenario, clock |-> now,
                    outcome |-> RunScenarioCall(positions, scenario, now)]
        /\ positions' = PositionsAfterRunScenario(positions, scenario, now)
    /\ UNCHANGED << now, pc, index, results >>

\* run_multiple_scenarios(positions, scenarios): results = {}
BeginRunMultipleScenarios ==
    /\ pc = "idle"
    /\ \E m \in ScenarioMappings :
        call' = [op |-> "run_multiple_scenarios", scenarios |-> m, clock |-> now,
                 returned |-> FALSE]
    /\ index' = 0
    /\ results' = << >>
    /\ pc' = "loop"
    /\ UNCHANGED << positions, now >>

\* One iteration of its loop: a scenario that raises is logged and skipped
RunMultipleScenariosStep ==
    /\ pc = "loop"
    /\ index < Len(call.scenarios)
    /\ LET entry == call.scenarios[index + 1]
       IN  /\ results' = StoreResult(results, entry.key,
                                     RunScenarioCall(positions, entry.params, now))
           /\ positions' = PositionsAfterRunScenario(positions, entry.params, now)
    /\ index' = index + 1
    /\ UNCHANGED << now, pc, call >>

\* return results
RunMultipleScenariosReturn ==
    /\ pc = "loop"
    /\ index = Len(call.scenarios)
    /\ call' = [op |-> "run_multiple_scenarios", scenarios |-> call.scenarios,
                clock |-> call.clock, returned |-> TRUE,
                scenario_results |-> results]
    /\ pc' = "idle"
    /\ index' = 0
    /\ results' = << >>
    /\ UNCHANGED << positions, now >>

\* The portfolio P&Ls of scenario_results.values()
PortfolioPnls(scenario_results) ==
    [i \in 1..Len(scenario_results) |-> scenario_results[i].result.portfolio_pnl]

\* calculate_var(scenario_results, confidence) on what run_multiple_scenarios
\* returned
CalculateVarCall ==
    /\ pc = "idle"
    /\ call.op = "run_multiple_scenarios"
    /\ call.returned
    /\ \E confidence \in ConfidenceArgs :
        call' = [op |-> "calculate_var",
                 scenario_results |-> call.scenario_results,
                 confidence |-> confidence.percent,
                 positive |-> confidence.positive,
                 outcome |-> CalculateVar(PortfolioPnls(call.scenario_results),
                                          confidence.percent)]
    /\ UNCHANGED << positions, now, pc, index, results >>

\* `for scenario_name, result in scenario_results.values()` on one value:
\* the result dict is iterated over its keys, and unpacking anything but
\* exactly two of them is a ValueError
DrawdownRaisesOn(result) == Cardinality(DOMAIN result) # 2

\* calculate_max_drawdown(scenario_results): the first value raises out of
\* the loop; only an empty mapping reaches the return
CalculateMaxDrawdown(scenario_results) ==
    IF \E i \in 1..Len(scenario_results) :
            DrawdownRaisesOn(scenario_results[i].result)
    THEN [raised |-> TRUE]
    ELSE [raised |-> FALSE, max_drawdown |-> 0, worst_scenario |-> << >>]

\* calculate_max_drawdown(scenario_results) on what run_multiple_scenarios
\* returned
CalculateMaxDrawdownCall ==
    /\ pc = "idle"
    /\ call.op = "run_multiple_scenarios"
    /\ call.returned
    /\ call' = [op |-> "calculate_max_drawdown",
                scenario_results |-> call.scenario_results,
                outcome |-> CalculateMaxDrawdown(call.scenario_results)]
    /\ UNCHANGED << positions, now, pc, index, results >>

Next ==
    \/ CurrentPortfolioValue
    \/ RunScenario
    \/ BeginRunMultipleScenarios
    \/ RunMultipleScenariosStep
    \/ RunMultipleScenariosReturn
    \/ CalculateVarCall
    \/ CalculateMaxDrawdownCall

Spec == Init /\ [][Next]_vars

(***************************************************************************)
(* The same calls with the wall clock running: datetime.now() moves        *)
(* between calls and between the scenarios of one run_multiple_scenarios   *)
(***************************************************************************)
MaxClock == 2

\* Half a day goes by
Tick ==
    /\ now < MaxClock
    /\ now' = now + 1
    /\ UNCHANGED << positions, pc, index, results, call >>

TimedNext ==
    \/ Tick
    \/ RunScenario
    \/ BeginRunMultipleScenarios
    \/ RunMultipleScenariosStep
    \/ RunMultipleScenariosReturn

TimedSpec == Init /\ [][TimedNext]_vars

(***************************************************************************)
(* The pricer on its own: calculate_batch and calculate_option_price on    *)
(* the same arrays                                                         *)
(***************************************************************************)
MaxBatch == 2

\* One index of the six arrays: expired, expiring and live; missing, zero,
\* below-floor and usual volatilities
ValidCases ==
    { [spot |-> 100 * Dollar, strike |-> 95 * Dollar, days |-> d,
       volatility |-> v, option_type |-> t, dividend_yield |-> 0] :
      d \in {-5, 0, 30}, v \in {-2000, 0, 50, 3000}, t \in {"C", "P"} }

\* Spots and strikes that are zero or negative, expiring and live
InvalidSpotOrStrike ==
    { << 0, 95 * Dollar >>, << -100 * Dollar, 95 * Dollar >>,
      << 100 * Dollar, 0 >>, << 100 * Dollar, -95 * Dollar >> }

InvalidCases ==
    { [spot |-> ss[1], strike |-> ss[2], days |-> d,
       volatility |-> 3000, option_type |-> t, dividend_yield |-> 0] :
      ss \in InvalidSpotOrStrike, d \in {0, 30}, t \in {"C", "P"} }

PricingCases == ValidCases \cup InvalidCases

\* The six equal-length arrays of a sequence of cases
Arrays(cases) ==
    [ spots |-> [i \in 1..Len(cases) |-> cases[i].spot],
      strikes |-> [i \in 1..Len(cases) |-> cases[i].strike],
      times_to_expiry |-> [i \in 1..Len(cases) |-> cases[i].days],
      volatilities |-> [i \in 1..Len(cases) |-> cases[i].volatility],
      option_types |-> [i \in 1..Len(cases) |-> cases[i].option_type],
      dividend_yields |-> [i \in 1..Len(cases) |-> cases[i].dividend_yield] ]

BatchInputs == {Arrays(cases) : cases \in SeqsUpTo(PricingCases, MaxBatch)}

PricingInit ==
    /\ positions = << >>
    /\ now = 0
    /\ pc = "idle"
    /\ index = 0
    /\ results = << >>
    /\ \E a \in BatchInputs : call = [op |-> "arrays", args |-> a]

\* calculate_batch(spots, strikes, times_to_expiry, volatilities,
\*                 option_types, dividend_yields)
CalculateBatchCall ==
    /\ call.op = "arrays"
    /\ call' = [op |-> "calculate_batch", args |-> call.args,
                prices |-> CalculateBatch(call.args.spots, call.args.strikes,
                                          call.args.times_to_expiry,
                                          call.args.volatilities,
                                          call.args.option_types,
                                          call.args.dividend_yields)]
    /\ UNCHANGED << positions, now, pc, index, results >>

\* calculate_option_price on the i-th entry of each array
CalculateOptionPriceCall ==
    /\ call.op = "arrays"
    /\ \E i \in 1..Len(call.args.spots) :
        call' = [op |-> "calculate_option_price", args |-> call.args, i |-> i,
                 outcome |-> CalculateOptionPrice(
                                 call.args.spots[i], call.args.strikes[i],
                                 call.args.times_to_expiry[i],
                                 call.args.volatilities[i],
                                 call.args.option_types[i],
                                 call.args.dividend_yields[i])]
    /\ UNCHANGED << positions, now, pc, index, results >>

PricingNext ==
    \/ CalculateBatchCall
    \/ CalculateOptionPriceCall

PricingSpec == PricingInit /\ [][PricingNext]_vars

(***************************************************************************)
(* The catalog: a caller that gets the scenarios, changes the dicts it was *)
(* given and gets the scenarios again.  `results` is the mapping the       *)
(* caller holds, `index` the number of changes it has made.                *)
(***************************************************************************)
MaxChanges == 2

VolatilityFields == {"iv_multipliers", "dte_scaling", "iv_change"}

\* What a caller does to a scenario dict it holds
ChangedScenario(scenario, change) ==
    CASE change = "spot_change" -> [scenario EXCEPT !.spot_change = @ + 1]
      [] change = "name" -> [scenario EXCEPT !.name = "Changed"]
      [] change = "pop" -> [k \in DOMAIN scenario \ VolatilityFields |-> scenario[k]]

CatalogInit ==
    /\ positions = << >>
    /\ now = 0
    /\ pc = "idle"
    /\ index = 0
    /\ results = << >>
    /\ call = [op |-> "none"]

\* scenarios = ScenarioTemplates.get_all_scenarios()
GetAllScenariosCall ==
    /\ call' = [op |-> "get_all_scenarios",
                scenarios |-> GetAllScenarios(results),
                earlier |-> IF call.op = "none" THEN GetAllScenarios(results)
                            ELSE call.earlier,
                changes |-> index]
    /\ results' = GetAllScenarios(results)
    /\ UNCHANGED << positions, now, pc, index >>

\* scenarios[key][field] = value, or scenarios[key].pop(field)
ChangeReturned ==
    /\ index < MaxChanges
    /\ \E k \in 1..Len(results), change \in {"spot_change", "name", "pop"} :
          results' = [results EXCEPT ![k].params = ChangedScenario(@, change)]
    /\ index' = index + 1
    /\ UNCHANGED << positions, now, pc, call >>

CatalogNext ==
    \/ GetAllScenariosCall
    \/ ChangeReturned

CatalogSpec == CatalogInit /\ [][CatalogNext]_vars

(***************************************************************************)
(* calculate_implied_volatility, one pass of its loop at a time.  `index`  *)
(* is the loop variable i, `results` the evaluations made so far.          *)
(***************************************************************************)
MaxIterations == 3

\* Observed prices: nothing, one tick, the model price at the seed for some
\* of the cases below, and more than any volatility below 3.0 gives
SolverInputs ==
    { [option_price |-> o, spot |-> 100 * Dollar, strike |-> k, days |-> d,
       option_type |-> t, dividend_yield |-> 0, max_iterations |-> m] :
      o \in {0, 1, 13005, 4 * Dollar, 6 * Dollar, 90 * Dollar},
      k \in {95 * Dollar, 100 * Dollar},
      d \in {0, 1, 30}, t \in {"C", "P"}, m \in 0..MaxIterations }

SolverInit ==
    /\ positions = << >>
    /\ now = 0
    /\ pc = "loop"
    /\ index = 0
    /\ results = << >>
    /\ \E a \in SolverInputs :
          call = [op |-> "calculate_implied_volatility", args |-> a,
                  iv |-> SolverSeed, returned |-> FALSE]

Converged(step) == Abs(step.price_diff) < Tolerance

\* return iv
ReturnIv(step) ==
    /\ call' = [call EXCEPT !.returned = TRUE]
    /\ results' = Append(results, step)
    /\ pc' = "idle"
    /\ UNCHANGED << positions, now, index >>

\* if abs(price_diff) < 0.001: return iv
SolveConverged ==
    /\ pc = "loop"
    /\ index < call.args.max_iterations
    /\ Converged(Evaluation(call.args, call.iv))
    /\ ReturnIv(Evaluation(call.args, call.iv))

\* if vega == 0: return iv
SolveNoVega ==
    /\ pc = "loop"
    /\ index < call.args.max_iterations
    /\ ~Converged(Evaluation(call.args, call.iv))
    /\ Evaluation(call.args, call.iv).vega = 0
    /\ ReturnIv(Evaluation(call.args, call.iv))

\* The update of the iterate
Updated(step) ==
    /\ call' = [call EXCEPT !.iv = NewtonUpdate(step.iv, step.price_diff, step.vega)]
    /\ results' = Append(results, step)
    /\ index' = index + 1
    /\ UNCHANGED << positions, now, pc >>

\* The rest of the loop body, and on to the next i
SolveUpdate ==
    /\ pc = "loop"
    /\ index < call.args.max_iterations
    /\ ~Converged(Evaluation(call.args, call.iv))
    /\ Evaluation(call.args, call.iv).vega # 0
    /\ Updated(Evaluation(call.args, call.iv))

\* range(max_iterations) is used up: the warning, and return iv
SolveExhausted ==
    /\ pc = "loop"
    /\ index = call.args.max_iterations
    /\ call' = [call EXCEPT !.returned = TRUE]
    /\ pc' = "idle"
    /\ UNCHANGED << positions, now, index, results >>

SolverNext ==
    \/ SolveConverged
    \/ SolveNoVega
    \/ SolveUpdate
    \/ SolveExhausted

SolverSpec == SolverInit /\ [][SolverNext]_vars

(***************************************************************************)
(* run_scenario on portfolios that hold several positions on one           *)
(* underlying (a stock and an option on AAA, two options on XYZ), next to  *)
(* an option that fails to reprice and a stock quoted at zero              *)
(***************************************************************************)
StockZZZ == Stock("ZZZ", 1, 0)

SharedUnderlyingPortfolios ==
    {ps \in SeqsUpTo({StockAAA, CallAAA, PutXYZ, CallXYZ, CallBAD, StockZZZ},
                     MaxPositions) :
        \A i, j \in 1..Len(ps) : i # j => ps[i] # ps[j]}

SharedUnderlyingInit ==
    /\ positions \in SharedUnderlyingPortfolios
    /\ now = 0
    /\ pc = "idle"
    /\ index = 0
    /\ results = << >>
    /\ call = [op |-> "none"]

SharedUnderlyingNext == RunScenario

SharedUnderlyingSpec == SharedUnderlyingInit /\ [][SharedUnderlyingNext]_vars

(***************************************************************************)
(* IVModel.calculate_iv_shift on its own                                   *)
(***************************************************************************)
\* Base IVs below the floor, usual, high and above the cap; moneyness
\* a / 100 on both sides of every threshold; DTEs on both sides of every
\* bucket end; multipliers that take 1 + change below zero and above the cap
ShiftInputs ==
    { [base_iv |-> b, moneyness |-> << a, Hundred >>, dte |-> d,
       scenario_multiplier |-> x] :
      b \in {50, 3000, 20000, 40000},
      a \in {94, 95, 97, 98, 101, 102, 104, 105},
      d \in {-3, 7, 8, 30, 31, 90, 91},
      x \in {-150, -35, 0, 35, 150} }

ShiftInit ==
    /\ positions = << >>
    /\ now = 0
    /\ pc = "idle"
    /\ index = 0
    /\ results = << >>
    /\ \E a \in ShiftInputs : call = [op |-> "arguments", args |-> a]

\* IVModel.calculate_iv_shift(base_iv, moneyness, dte, scenario_multiplier)
CalculateIvShiftCall ==
    /\ call.op = "arguments"
    /\ call' = [op |-> "calculate_iv_shift", args |-> call.args,
                new_iv |-> CalculateIvShift(call.args.base_iv,
                                            call.args.moneyness[1],
                                            call.args.moneyness[2],
                                            call.args.dte,
                                            call.args.scenario_multiplier)]
    /\ UNCHANGED << positions, now, pc, index, results >>

ShiftNext == CalculateIvShiftCall

ShiftSpec == ShiftInit /\ [][ShiftNext]_vars

(***************************************************************************)
(* Properties.  The latest call and its outcome are read from `call`.      *)
(***************************************************************************)
\* The latest call is a run_scenario on a scenario dict
RanScenario == call.op = "run_scenario" /\ call.scenario # << >>

TheScenario == call.scenario[1]
TheResult == call.outcome.result

\* underlying_prices as that call built it
ThePrices ==
    UnderlyingPrices(positions, Get(TheScenario, "spot_change", 0), 1, EmptyDict)

\* What repricing positions[i] did in that call
Repriced(i) == ScenarioValue(positions[i], TheScenario, ThePrices, call.clock)

Failing == {i \in 1..Len(positions) : Repriced(i).raised}

\* The indices of the positions whose repricing returned, in input order
Surviving ==
    LET Returns(i) == ~Repriced(i).raised
    IN  SelectSeq([i \in 1..Len(positions) |-> i], Returns)

\* C1: when repricing raises for exactly one position, position_results has
\* one entry for every input position, and the failing position's entry
\* carries its current value as scenario value, with pnl 0.
C1_FailOpenCoverage ==
    (RanScenario /\ Cardinality(Failing) = 1) =>
        /\ ~call.outcome.raised
        /\ Len(TheResult.position_results) = Len(positions)
        /\ \A i \in Failing :
            /\ TheResult.position_results[i].symbol = positions[i].symbol
            /\ TheResult.position_results[i].current_value
                   = positions[i].position_value
            /\ TheResult.position_results[i].scenario_value
                   = positions[i].position_value
            /\ TheResult.position_results[i].pnl = 0

\* C2: whichever positions fail to reprice, run_scenario returns; every other
\* position is repriced; each failing position adds exactly its position_value
\* to scenario_portfolio_value, and nothing to portfolio_pnl.
C2_FailOpenTotals ==
    RanScenario =>
        /\ ~call.outcome.raised
        /\ Len(TheResult.position_results) = Len(Surviving)
        /\ \A k \in 1..Len(Surviving) :
            /\ TheResult.position_results[k].symbol = positions[Surviving[k]].symbol
            /\ TheResult.position_results[k].scenario_value
                   = Repriced(Surviving[k]).value
        /\ TheResult.scenario_portfolio_value
               = SeqSum([i \in 1..Len(positions) |->
                            IF i \in Failing THEN positions[i].position_value
                            ELSE Repriced(i).value])
        /\ TheResult.portfolio_pnl
               = SeqSum([i \in 1..Len(positions) |->
                            IF i \in Failing THEN 0
                            ELSE Repriced(i).value - positions[i].position_value])

\* A call in which some positions failed to reprice and others were repriced
C2_SomeFailSomeReprice ==
    /\ RanScenario
    /\ Failing # {}
    /\ Cardinality(Failing) < Len(positions)
    /\ TheResult.scenario_portfolio_value # TheResult.current_portfolio_value

\* A scenario that changes nothing: no spot move, no volatility transform,
\* no day passing
ZeroChange(scenario) ==
    /\ Get(scenario, "spot_change", 0) = 0
    /\ Get(scenario, "days_pass", 0) = 0
    /\ DOMAIN scenario \cap {"iv_multipliers", "dte_scaling", "iv_change"} = {}

\* C3: under a zero-change scenario portfolio_pnl is 0 and every position's
\* scenario_value equals its current_value, stocks and options alike.
C3_ZeroChangeIdempotence ==
    (RanScenario /\ ZeroChange(TheScenario)) =>
        /\ ~call.outcome.raised
        /\ TheResult.portfolio_pnl = 0
        /\ \A k \in 1..Len(TheResult.position_results) :
            TheResult.position_results[k].scenario_value
                = TheResult.position_results[k].current_value

\* The spec's concrete scenario on the single put
ConcreteCase ==
    /\ RanScenario
    /\ positions = << PutXYZ >>
    /\ TheScenario = ConcreteScenario

\* The put repriced at 95 with the given IV, times quantity and multiplier
PutValueAtIv(iv) ==
    CalculateOptionPrice(95 * Dollar, 100 * Dollar, 30, iv, "P", 0).price
        * PutXYZ.quantity * PutXYZ.contract_multiplier

\* C4 as stated: the put at strike 100, price 100, IV 0.30, 30 days, under
\* {spot_change: -0.05, iv_multipliers: {ATM: 0.35}} is shocked to 95,
\* classified ATM and repriced with IV 0.30 * (1 + 0.35 * 1.2 * 1.0).
C4_ConcreteScenario ==
    ConcreteCase =>
        /\ ThePrices["XYZ"] = 95 * Dollar
        /\ OptionCategory(PutXYZ, ThePrices["XYZ"]) = "ATM"
        /\ CalculatePositionIv(PutXYZ, TheScenario, ThePrices["XYZ"], call.clock)
               = Div(3000 * (Scale + 35 * 12 * 10), Scale)
        /\ TheResult.position_results[1].scenario_value
               = PutValueAtIv(Div(3000 * (Scale + 35 * 12 * 10), Scale))

\* C4 amended: the put is shocked to 95 and, its moneyness being strike/spot
\* = 100/95 >= 1.05, classified ITM_PUT; iv_multipliers holds neither ITM_PUT
\* nor default, and the put is repriced with its IV unchanged at 0.30.
C4_ConcreteScenarioInTheMoney ==
    ConcreteCase =>
        /\ ThePrices["XYZ"] = 95 * Dollar
        /\ OptionCategory(PutXYZ, ThePrices["XYZ"]) = "ITM_PUT"
        /\ DOMAIN TheScenario.iv_multipliers \cap {"ITM_PUT", "default"} = {}
        /\ CalculatePositionIv(PutXYZ, TheScenario, ThePrices["XYZ"], call.clock)
               = PutXYZ.implied_volatility
        /\ TheResult.position_results[1].scenario_value
               = PutValueAtIv(PutXYZ.implied_volatility)

\* The concrete scenario has run on the single put and repriced it
C4_ConcreteCaseRan ==
    /\ ConcreteCase
    /\ Len(TheResult.position_results) = 1
    /\ TheResult.position_results[1].symbol = "XYZ"

\* A dict without some of its keys
Without(d, keys) == [k \in DOMAIN d \ keys |-> d[k]]

\* A volatility-transform field that is present and not empty
Populated(scenario, field) ==
    /\ field \in DOMAIN scenario
    /\ field \in {"iv_multipliers", "dte_scaling"} => DOMAIN scenario[field] # {}

\* The underlying price positions[i] is repriced at
PriceOf(i) ==
    PriceOrFallback(positions[i], TheScenario,
                    PriceLookup(ThePrices, PriceKey(positions[i])))

\* The options of the call whose IV gets resolved
ResolvedOptions ==
    {i \in 1..Len(positions) :
        positions[i].is_option /\ ~MoneynessRaises(positions[i], PriceOf(i))}

ResolvedIv(i, scenario) ==
    CalculatePositionIv(positions[i], scenario, PriceOf(i), call.clock)

\* C5: with iv_multipliers populated, removing dte_scaling and iv_change never
\* changes the resolved IV of an option; with dte_scaling populated (for the
\* option's bucket) and no iv_multipliers, removing iv_change never changes it.
C5_TransformPriority ==
    RanScenario =>
        \A i \in ResolvedOptions :
            /\ Populated(TheScenario, "iv_multipliers") =>
                   ResolvedIv(i, TheScenario)
                       = ResolvedIv(i, Without(TheScenario,
                                               {"dte_scaling", "iv_change"}))
            /\ ( /\ ~Populated(TheScenario, "iv_multipliers")
                 /\ Populated(TheScenario, "dte_scaling")
                 /\ DteBucket(DteOrDefault(DaysToExpiration(positions[i], call.clock)))
                        \in DOMAIN TheScenario.dte_scaling ) =>
                   ResolvedIv(i, TheScenario)
                       = ResolvedIv(i, Without(TheScenario, {"iv_change"}))

\* The ascending-sorted P&L list at floor((1 - confidence) * n) clamped into
\* [0, n - 1]
ClampedSelection(pnls, confidence) ==
    SortedByPnl([i \in 1..Len(pnls) |-> [pnl |-> pnls[i]]])
        [Max(0, Min(Len(pnls) - 1,
                    ((Hundred - confidence) * Len(pnls)) \div Hundred)) + 1].pnl

\* C6: calculate_var returns the sorted P&L at floor((1 - confidence) * N)
\* clamped into [0, N-1], and 0 for an empty result set.
C6_ValueAtRiskSelection ==
    call.op = "calculate_var" =>
        /\ ~call.outcome.raised
        /\ call.outcome.value =
               IF call.scenario_results = << >> THEN 0
               ELSE ClampedSelection(PortfolioPnls(call.scenario_results),
                                     call.confidence)

\* The first entry of rs, in input order, whose pnl is v
FirstWithPnl(rs, v) ==
    rs[CHOOSE i \in 1..Len(rs) :
           rs[i].pnl = v /\ \A j \in 1..(i - 1) : rs[j].pnl # v]

MinPnl(rs) == CHOOSE v \in {rs[i].pnl : i \in 1..Len(rs)} :
                  \A i \in 1..Len(rs) : v <= rs[i].pnl
MaxPnl(rs) == CHOOSE v \in {rs[i].pnl : i \in 1..Len(rs)} :
                  \A i \in 1..Len(rs) : v >= rs[i].pnl

\* C7: worst_position is the first entry in input order with the minimum pnl,
\* best_position the first entry in input order with the maximum pnl.
C7_BestWorstTieBreak ==
    (RanScenario /\ ~call.outcome.raised
                 /\ TheResult.position_results # << >>) =>
        /\ TheResult.worst_position
               = << FirstWithPnl(TheResult.position_results,
                                 MinPnl(TheResult.position_results)) >>
        /\ TheResult.best_position
               = << FirstWithPnl(TheResult.position_results,
                                 MaxPnl(TheResult.position_results)) >>

\* calculate_option_price on the i-th entry of the arrays
ScalarPrice(args, i) ==
    CalculateOptionPrice(args.spots[i], args.strikes[i], args.times_to_expiry[i],
                         args.volatilities[i], args.option_types[i],
                         args.dividend_yields[i])

\* C8: at every index, calculate_batch returns the price calculate_option_price
\* returns on that index's parameters, whatever the expiry and the volatility.
C8_BatchScalarEquivalence ==
    call.op = "calculate_batch" =>
        /\ Len(call.prices) = Len(call.args.spots)
        /\ \A i \in 1..Len(call.prices) :
            ~ScalarPrice(call.args, i).raised =>
                /\ ~call.prices[i].nan
                /\ call.prices[i].price = ScalarPrice(call.args, i).price

\* C9: no call writes any field of any caller-supplied Position.
C9_PositionsNeverWritten == [][positions' = positions]_vars

\* run_multiple_scenarios and calculate_var have run over a portfolio in
\* which the repricing of a position fails
C9_CallsRanWithFailingPosition ==
    /\ call.op = "calculate_var"
    /\ \E i \in 1..Len(positions) : positions[i] = CallBAD
    /\ \E i \in 1..Len(positions) : positions[i] = PutXYZ

\* The entries of a mapping whose run_scenario returns, in order
Evaluated(ps, scenarios, clock) ==
    LET Returns(entry) == ~RunScenarioCall(ps, entry.params, clock).raised
    IN  SelectSeq(scenarios, Returns)

\* C10: run_multiple_scenarios never raises; the keys it returns are exactly
\* those of the scenarios whose run_scenario did not raise, each with that
\* scenario's result, including the scenarios that come after a failed one.
C10_ScenarioContainment ==
    /\ pc = "loop" =>
           /\ index <= Len(call.scenarios)
           /\ Len(results) = Len(Evaluated(positions,
                                           SubSeq(call.scenarios, 1, index), now))
    /\ (call.op = "run_multiple_scenarios" /\ call.returned) =>
           /\ Len(call.scenario_results)
                  = Len(Evaluated(positions, call.scenarios, now))
           /\ \A k \in 1..Len(call.scenario_results) :
               /\ call.scenario_results[k].key
                      = Evaluated(positions, call.scenarios, now)[k].key
               /\ call.scenario_results[k].result
                      = RunScenarioCall(
                            positions,
                            Evaluated(positions, call.scenarios, now)[k].params,
                            now).result

\* run_multiple_scenarios returned a result for a scenario that came after one
\* whose evaluation raised
C10_LaterScenarioAfterFailure ==
    /\ call.op = "run_multiple_scenarios"
    /\ call.returned
    /\ Len(call.scenarios) = 2
    /\ call.scenarios[1].params = << >>
    /\ Len(call.scenario_results) = 1
    /\ call.scenario_results[1].key = call.scenarios[2].key

\* C11: run_scenario is a function of (positions, scenario) alone: evaluated
\* again on the same positions and scenario at any later time, it returns
\* what the earlier call returned.
C11_ScenarioDeterminism ==
    call.op = "run_scenario" =>
        RunScenarioCall(positions, call.scenario, now) = call.outcome

\* The key-th entry of a mapping, evaluated alone when the batch was called
InIsolation(ps, scenarios, key, clock) ==
    LET entry == scenarios[CHOOSE i \in 1..Len(scenarios) : scenarios[i].key = key]
    IN  RunScenarioCall(ps, entry.params, clock)

\* C12: every result run_multiple_scenarios stores under a key equals
\* run_scenario on that key's scenario evaluated in isolation, whatever else
\* is in the batch and in whatever order.
C12_SiblingIndependence ==
    (call.op = "run_multiple_scenarios" /\ call.returned) =>
        \A k \in 1..Len(call.scenario_results) :
            /\ ~InIsolation(positions, call.scenarios,
                            call.scenario_results[k].key, call.clock).raised
            /\ call.scenario_results[k].result
                   = InIsolation(positions, call.scenarios,
                                 call.scenario_results[k].key, call.clock).result

\* The arguments of the calculate_option_price call that was made
ScalarArgs ==
    [spot |-> call.args.spots[call.i], strike |-> call.args.strikes[call.i],
     days |-> call.args.times_to_expiry[call.i],
     volatility |-> call.args.volatilities[call.i],
     option_type |-> call.args.option_types[call.i],
     dividend_yield |-> call.args.dividend_yields[call.i]]

\* An unexpired call with a non-positive volatility, strike or spot
InvalidInput ==
    /\ call.op = "calculate_option_price"
    /\ ScalarArgs.days > 0
    /\ (ScalarArgs.volatility <= 0 \/ ScalarArgs.strike <= 0 \/ ScalarArgs.spot <= 0)

\* C13: a call of calculate_option_price before expiry with a non-positive
\* volatility, strike or spot never raises, and where the volatility is the
\* invalid input the price is the one computed at the default 0.30
C13_InvalidInputCorrected ==
    InvalidInput =>
        /\ ~call.outcome.raised
        /\ (ScalarArgs.spot > 0 /\ ScalarArgs.strike > 0) =>
               call.outcome = CalculateOptionPrice(ScalarArgs.spot, ScalarArgs.strike,
                                  ScalarArgs.days, DefaultVolatility,
                                  ScalarArgs.option_type, ScalarArgs.dividend_yield)

\* What is left of an option at expiry, written out
AtExpiry(spot, strike, option_type) ==
    IF option_type = "C"
    THEN (IF spot > strike THEN spot - strike ELSE 0)
    ELSE (IF strike > spot THEN strike - spot ELSE 0)

\* C15: with a time to expiry <= 0, whatever the volatility, the scalar
\* pricer returns max(0, spot - strike) for a call and max(0, strike - spot)
\* for a put, and every such entry of a batch holds the same value
C15_ExactExpiry ==
    /\ (call.op = "calculate_option_price" /\ ScalarArgs.days <= 0) =>
           call.outcome = Returned(AtExpiry(ScalarArgs.spot, ScalarArgs.strike,
                                            ScalarArgs.option_type))
    /\ call.op = "calculate_batch" =>
           \A i \in 1..Len(call.prices) :
               call.args.times_to_expiry[i] <= 0 =>
                   call.prices[i] =
                       [nan |-> FALSE,
                        price |-> AtExpiry(call.args.spots[i], call.args.strikes[i],
                                           call.args.option_types[i])]

\* A batch with an expired call in the money priced at a non-positive
\* volatility, next to an expired put
C15_ExpiredEntriesPriced ==
    /\ call.op = "calculate_batch"
    /\ \E i, j \in 1..Len(call.prices) :
          /\ call.args.times_to_expiry[i] < 0
          /\ call.args.volatilities[i] <= 0
          /\ call.args.option_types[i] = "C"
          /\ call.prices[i].price > 0
          /\ call.args.times_to_expiry[j] = 0
          /\ call.args.option_types[j] = "P"
          /\ call.prices[j].price > 0

\* The price the scalar pricer gives the call's other arguments at volatility v
PriceAtVolatility(v) ==
    CalculateOptionPrice(ScalarArgs.spot, ScalarArgs.strike, ScalarArgs.days, v,
                         ScalarArgs.option_type, ScalarArgs.dividend_yield)

\* C20: before expiry, with positive spot and strike, the price returned by
\* calculate_option_price is strictly below the price it returns for the
\* same arguments at any larger volatility
C20_MonotoneInVolatility ==
    (/\ call.op = "calculate_option_price"
     /\ ScalarArgs.days > 0 /\ ScalarArgs.spot > 0 /\ ScalarArgs.strike > 0) =>
        \A c \in ValidCases :
            c.volatility > ScalarArgs.volatility =>
                /\ ~PriceAtVolatility(c.volatility).raised
                /\ call.outcome.price < PriceAtVolatility(c.volatility).price

\* calculate_var of the call's result set at another confidence level
VarAtLevel(confidence) ==
    CalculateVar(PortfolioPnls(call.scenario_results), confidence).value

\* C16: on a non-empty result set VaR(0.99) <= VaR(0.95) <= VaR(0.50), and
\* the value returned for a confidence in (0, 1] is not below the value
\* returned for any larger confidence in (0, 1]
C16_ValueAtRiskOrdering ==
    (call.op = "calculate_var" /\ call.scenario_results # << >>) =>
        /\ VarAtLevel(99) <= VarAtLevel(95)
        /\ VarAtLevel(95) <= VarAtLevel(50)
        /\ (call.positive /\ call.confidence <= Hundred) =>
               \A c \in ConfidenceLevels :
                   (call.confidence < c /\ c <= Hundred) =>
                       VarAtLevel(c) <= call.outcome.value

\* The sum over the positions of ps, in list order, of what each contributes
\* to one Greek: the recorded Greek of an option times quantity times
\* multiplier, and for delta the quantity of a stock
GreekSum(ps, greek) ==
    SeqSum([i \in 1..Len(ps) |->
        IF ps[i].is_option
        THEN (IF greek \in DOMAIN ps[i]
              THEN ps[i][greek] * ps[i].quantity * ps[i].contract_multiplier
              ELSE 0)
        ELSE (IF greek = "delta" THEN ps[i].quantity * Hundred ELSE 0)])

\* The field-by-field sum of two metrics records
MetricsSum(a, b) == [f \in DOMAIN a |-> a[f] + b[f]]

\* C17: calculate_current_portfolio_value returns, for each Greek, the sum
\* over the options of Greek * quantity * multiplier (plus the quantities of
\* the stocks for delta), total_value = stock_value + option_value, and the
\* metrics of a list are the field-by-field sum of the metrics of its two
\* parts wherever the list is cut
C17_GreekAdditivity ==
    call.op = "calculate_current_portfolio_value" =>
        /\ \A greek \in {"delta", "gamma", "theta", "vega", "rho"} :
               call.metrics[greek] = GreekSum(positions, greek)
        /\ call.metrics.total_value
               = call.metrics.stock_value + call.metrics.option_value
        /\ \A k \in 0..Len(positions) :
               call.metrics =
                   MetricsSum(
                       CalculateCurrentPortfolioValue(SubSeq(positions, 1, k)),
                       CalculateCurrentPortfolioValue(
                           SubSeq(positions, k + 1, Len(positions))))

\* Metrics were computed for a stock, an option with its Greeks recorded and
\* an option with none
C17_MixedPortfolioMeasured ==
    /\ call.op = "calculate_current_portfolio_value"
    /\ \E i, j, k \in 1..Len(positions) :
          /\ ~positions[i].is_option
          /\ positions[j].is_option /\ "delta" \in DOMAIN positions[j]
          /\ positions[k].is_option /\ "delta" \notin DOMAIN positions[k]
    /\ call.metrics.vega # 0
    /\ call.metrics.stock_value # 0

\* C18: run_scenario on an empty position list returns, with current and
\* scenario portfolio value 0, P&L 0 and 0 percent, no best and no worst
\* position and an empty position_results list; run_multiple_scenarios on an
\* empty mapping returns an empty mapping
C18_EmptyInputs ==
    /\ (RanScenario /\ positions = << >>) =>
           /\ ~call.outcome.raised
           /\ TheResult.current_portfolio_value = 0
           /\ TheResult.scenario_portfolio_value = 0
           /\ TheResult.portfolio_pnl = 0
           /\ TheResult.portfolio_pnl_percent = 0
           /\ TheResult.worst_position = << >>
           /\ TheResult.best_position = << >>
           /\ TheResult.position_results = << >>
    /\ (call.op = "run_multiple_scenarios" /\ call.returned
           /\ call.scenarios = << >>) =>
           call.scenario_results = << >>

\* run_scenario ran a scenario that moves spot and volatility on no positions
C18_RanOnNoPositions ==
    /\ RanScenario
    /\ positions = << >>
    /\ Get(TheScenario, "spot_change", 0) # 0

\* run_multiple_scenarios returned from an empty mapping
C18_RanNoScenarios ==
    /\ call.op = "run_multiple_scenarios" /\ call.returned
    /\ call.scenarios = << >>
    /\ positions # << >>

\* C19: get_all_scenarios returns at least 15 scenarios, 'Normal Day',
\* 'Market Panic' and 'Earnings Beat' among them, each under a key equal to
\* its name, each with spot_change and days_pass and exactly one populated
\* volatility-transform field, and returns the same catalog whatever was done
\* to the dicts an earlier call returned
C19_CatalogWellFormed ==
    call.op = "get_all_scenarios" =>
        /\ Len(call.scenarios) >= 15
        /\ \A i, j \in 1..Len(call.scenarios) :
               i # j => call.scenarios[i].key # call.scenarios[j].key
        /\ {"Normal Day", "Market Panic", "Earnings Beat"}
               \subseteq {call.scenarios[i].key : i \in 1..Len(call.scenarios)}
        /\ \A i \in 1..Len(call.scenarios) :
               /\ call.scenarios[i].key = call.scenarios[i].params.name
               /\ {"spot_change", "days_pass"} \subseteq DOMAIN call.scenarios[i].params
               /\ Cardinality({f \in VolatilityFields :
                                  Populated(call.scenarios[i].params, f)}) = 1
        /\ call.scenarios = call.earlier

\* The catalog was fetched again after the caller had changed and emptied
\* entries of the one it held
C19_FetchedAfterChanges ==
    /\ call.op = "get_all_scenarios"
    /\ call.changes = MaxChanges
    /\ results = call.scenarios

\* An evaluation at which the loop returns
Stops(step) == Abs(step.price_diff) < Tolerance \/ step.vega = 0

\* C14: calculate_implied_volatility makes at most max_iterations
\* evaluations; it returns at the first evaluation whose price difference is
\* below 0.001 or whose vega is 0, with the iterate of that evaluation, and
\* after max_iterations evaluations otherwise; the value it holds and returns
\* is the seed 0.30 before any update and within [0.01, 3.0] always
C14_SolverTerminatesInRange ==
    call.op = "calculate_implied_volatility" =>
        /\ Len(results) <= call.args.max_iterations
        /\ call.iv >= 100 /\ call.iv <= 30000
        /\ (index = 0 => call.iv = 3000)
        /\ \A k \in 1..(Len(results) - 1) : ~Stops(results[k])
        /\ (call.returned /\ Len(results) > 0 /\ Stops(results[Len(results)])) =>
               call.iv = results[Len(results)].iv
        /\ (call.returned /\ ~(Len(results) > 0 /\ Stops(results[Len(results)]))) =>
               Len(results) = call.args.max_iterations
        /\ (~call.returned /\ Len(results) > 0) => ~Stops(results[Len(results)])

\* The solver returned on convergence after it had moved the iterate off the
\* seed
C14_ConvergedAfterUpdates ==
    /\ call.op = "calculate_implied_volatility"
    /\ call.returned
    /\ Len(results) > 1
    /\ Abs(results[Len(results)].price_diff) < Tolerance
    /\ call.iv # SolverSeed

\* The moneyness beta of m = a / b, in tenths: 1.3 below 0.95, 1.2 below 0.98,
\* 1.0 below 1.02, 0.9 below 1.05, 0.8 from there (b > 0)
MoneynessBetaOf(a, b) ==
    CASE 100 * a < 95 * b -> 13
      [] 100 * a >= 95 * b /\ 100 * a < 98 * b -> 12
      [] 100 * a >= 98 * b /\ 100 * a < 102 * b -> 10
      [] 100 * a >= 102 * b /\ 100 * a < 105 * b -> 9
      [] 100 * a >= 105 * b -> 8

\* The time beta of d days, in tenths: 1.5 to 7, 1.0 to 30, 0.7 to 90, 0.5 beyond
TimeBetaOf(d) ==
    CASE d <= 7 -> 15
      [] 7 < d /\ d <= 30 -> 10
      [] 30 < d /\ d <= 90 -> 7
      [] d > 90 -> 5

\* clamp(x, 0.01, 3.0)
ClampOf(x) == IF x < 100 THEN 100 ELSE IF x > 30000 THEN 30000 ELSE x

\* shift(baseIV, m = a / b, dte, multiplier)
\*     = clamp(baseIV * (1 + multiplier * mBeta * tBeta), 0.01, 3.0)
ShiftOf(base_iv, a, b, d, multiplier) ==
    ClampOf(Div(base_iv * (Scale + multiplier * MoneynessBetaOf(a, b) * TimeBetaOf(d)),
                Scale))

\* C27: calculate_iv_shift returns clamp(baseIV * (1 + multiplier * mBeta *
\* tBeta), 0.01, 3.0) with the stated betas, a value within [0.01, 3.0]
C27_ShiftFormula ==
    call.op = "calculate_iv_shift" =>
        /\ call.new_iv = ShiftOf(call.args.base_iv, call.args.moneyness[1],
                                 call.args.moneyness[2], call.args.dte,
                                 call.args.scenario_multiplier)
        /\ call.new_iv >= 100
        /\ call.new_iv <= 30000

\* A shift on a bucket's last day and a beta threshold that stayed inside
\* the bounds
C27_ShiftedInsideBounds ==
    /\ call.op = "calculate_iv_shift"
    /\ call.args.dte = 30
    /\ call.args.moneyness[1] = 98
    /\ call.args.scenario_multiplier = 35
    /\ call.new_iv > call.args.base_iv
    /\ call.new_iv < 30000

\* shift() for positions[i] at its shocked spot with the given multiplier:
\* base IV (0.30 when none is recorded), moneyness spot/strike for a call and
\* strike/spot for a put, DTE (30 when there is no expiration)
ShiftFor(i, multiplier) ==
    ShiftOf(IF "implied_volatility" \in DOMAIN positions[i]
            THEN positions[i].implied_volatility ELSE 3000,
            MoneynessRatio(positions[i], PriceOf(i))[1],
            MoneynessRatio(positions[i], PriceOf(i))[2],
            DteOrDefault(DaysToExpiration(positions[i], call.clock)),
            multiplier)

\* C21: under a scenario with neither iv_multipliers nor dte_scaling the new
\* IV of an option is shift(baseIV, moneyness, dte, iv_change), iv_change
\* being 0 when absent
C21_UniformTier ==
    (RanScenario /\ DOMAIN TheScenario \cap {"iv_multipliers", "dte_scaling"} = {}) =>
        \A i \in ResolvedOptions :
            ResolvedIv(i, TheScenario)
                = ShiftFor(i, IF "iv_change" \in DOMAIN TheScenario
                              THEN TheScenario.iv_change ELSE 0)

\* The dte_scaling bucket of d days
BucketOf(d) ==
    CASE d <= 7 -> "0-7"
      [] 8 <= d /\ d <= 30 -> "8-30"
      [] 31 <= d /\ d <= 90 -> "31-90"
      [] d > 90 -> "90+"

\* The value of the bucket of d days, iv_change (0 when absent) without it
BucketValue(scenario, d) ==
    IF BucketOf(d) \in DOMAIN scenario.dte_scaling
    THEN scenario.dte_scaling[BucketOf(d)]
    ELSE IF "iv_change" \in DOMAIN scenario THEN scenario.iv_change ELSE 0

\* C22: under a scenario with dte_scaling and no iv_multipliers the new IV of
\* an option is shift(baseIV, moneyness, dte, value of the bucket of its DTE),
\* with iv_change in place of an absent bucket
C22_DteScalingTier ==
    (RanScenario /\ Populated(TheScenario, "dte_scaling")
       /\ "iv_multipliers" \notin DOMAIN TheScenario) =>
        \A i \in ResolvedOptions :
            ResolvedIv(i, TheScenario)
                = ShiftFor(i, BucketValue(TheScenario,
                               DteOrDefault(DaysToExpiration(positions[i], call.clock))))

\* The category of moneyness a / b: OTM below 0.95, ATM below 1.05, ITM from
\* there, with the side of the option
CategoryFor(a, b, option_type) ==
    CASE 100 * a < 95 * b -> IF option_type = "P" THEN "OTM_PUT" ELSE "OTM_CALL"
      [] 100 * a >= 95 * b /\ 100 * a < 105 * b -> "ATM"
      [] 100 * a >= 105 * b -> IF option_type = "P" THEN "ITM_PUT" ELSE "ITM_CALL"

\* The category of positions[i] at its shocked spot
CategoryAt(i) ==
    CategoryFor(MoneynessRatio(positions[i], PriceOf(i))[1],
                MoneynessRatio(positions[i], PriceOf(i))[2],
                positions[i].option_type)

\* C23: under a scenario with iv_multipliers the new IV of an option is
\* shift(baseIV, m, dte, iv_multipliers[category]) when its category is a
\* key, shift(baseIV, m, dte, iv_multipliers['default']) otherwise; where
\* neither key exists the new IV at least owes nothing to dte_scaling and
\* iv_change
C23_CategoryTier ==
    (RanScenario /\ Populated(TheScenario, "iv_multipliers")) =>
        \A i \in ResolvedOptions :
            IF CategoryAt(i) \in DOMAIN TheScenario.iv_multipliers
            THEN ResolvedIv(i, TheScenario)
                     = ShiftFor(i, TheScenario.iv_multipliers[CategoryAt(i)])
            ELSE IF "default" \in DOMAIN TheScenario.iv_multipliers
            THEN ResolvedIv(i, TheScenario)
                     = ShiftFor(i, TheScenario.iv_multipliers["default"])
            ELSE ResolvedIv(i, TheScenario)
                     = ResolvedIv(i, [k \in DOMAIN TheScenario
                                          \ {"dte_scaling", "iv_change"}
                                      |-> TheScenario[k]])

\* The position lists that hold the positions of ps in another order
Reordered(ps) ==
    {[i \in 1..Len(ps) |-> ps[f[i]]] :
        f \in {g \in [1..Len(ps) -> 1..Len(ps)] :
                  \A i, j \in 1..Len(ps) : i # j => g[i] # g[j]}}

\* C24: within one run_scenario the positions on one underlying are revalued
\* against one shocked spot, and portfolio_pnl is the same for every order of
\* the position list
C24_OneShockedSpot ==
    RanScenario =>
        /\ \A i, j \in 1..Len(positions) :
               PriceKey(positions[i]) = PriceKey(positions[j]) =>
                   PriceOf(i) = PriceOf(j)
        /\ \A qs \in Reordered(positions) :
               RunScenarioCall(qs, call.scenario, call.clock).result.portfolio_pnl
                   = TheResult.portfolio_pnl

\* The options with a strike whose remaining days the scenario uses up
ExpiringOptions ==
    {i \in 1..Len(positions) :
        /\ positions[i].is_option
        /\ "strike" \in DOMAIN positions[i]
        /\ Get(TheScenario, "days_pass", 0)
               >= DteOrDefault(DaysToExpiration(positions[i], call.clock))}

\* C25: an option whose DTE (30 without an expiration) does not exceed
\* days_pass is in the result with a scenario_value equal to its intrinsic
\* value at the shocked spot times quantity times multiplier, whatever
\* volatility transform the scenario carries
C25_TimeDecayFloor ==
    RanScenario =>
        \A i \in ExpiringOptions :
            \E k \in 1..Len(TheResult.position_results) :
                /\ k <= Len(Surviving)
                /\ Surviving[k] = i
                /\ TheResult.position_results[k].scenario_value
                       = AtExpiry(PriceOf(i), positions[i].strike,
                                  positions[i].option_type)
                         * positions[i].quantity * positions[i].contract_multiplier

\* C26: in every result of run_scenario portfolio_pnl is
\* scenario_portfolio_value - current_portfolio_value and is the sum of pnl
\* over position_results, each entry has pnl = scenario_value -
\* current_value, and a percentage relative to a value of 0 is 0
C26_PnlAccounting ==
    RanScenario =>
        /\ ~call.outcome.raised
        /\ TheResult.portfolio_pnl
               = TheResult.scenario_portfolio_value - TheResult.current_portfolio_value
        /\ TheResult.portfolio_pnl
               = SeqSum([k \in 1..Len(TheResult.position_results) |->
                            TheResult.position_results[k].pnl])
        /\ \A k \in 1..Len(TheResult.position_results) :
               /\ TheResult.position_results[k].pnl
                      = TheResult.position_results[k].scenario_value
                        - TheResult.position_results[k].current_value
               /\ TheResult.position_results[k].current_value = 0 =>
                      TheResult.position_results[k].pnl_percent = 0
        /\ TheResult.current_portfolio_value = 0 =>
               TheResult.portfolio_pnl_percent = 0

\* A result with a gain or loss, in which one position failed to reprice and
\* another has no current value
C26_FailedAndWorthless ==
    /\ RanScenario
    /\ Failing # {}
    /\ TheResult.portfolio_pnl # 0
    /\ \E k \in 1..Len(TheResult.position_results) :
          TheResult.position_results[k].current_value = 0

\* A result on a portfolio without current value
C26_WorthlessPortfolio ==
    /\ RanScenario
    /\ positions # << >>
    /\ TheResult.current_portfolio_value = 0

\* The lowest of a non-empty sequence of portfolio P&Ls
LowestPnl(pnls) ==
    CHOOSE v \in {pnls[i] : i \in 1..Len(pnls)} :
        \A i \in 1..Len(pnls) : v <= pnls[i]

\* C28: on every mapping run_multiple_scenarios returned,
\* calculate_max_drawdown returns without raising; max_drawdown is the lowest
\* portfolio_pnl when that is negative and 0 otherwise; worst_scenario names
\* a scenario with that lowest negative P&L and is None when there is none
C28_MaxDrawdown ==
    call.op = "calculate_max_drawdown" =>
        /\ ~call.outcome.raised
        /\ LET pnls == PortfolioPnls(call.scenario_results)
           IN  IF pnls # << >> /\ LowestPnl(pnls) < 0
               THEN /\ call.outcome.max_drawdown = LowestPnl(pnls)
                    /\ \E i \in 1..Len(pnls) :
                          /\ pnls[i] = LowestPnl(pnls)
                          /\ call.outcome.worst_scenario
                                = << call.scenario_results[i].key >>
               ELSE /\ call.outcome.max_drawdown = 0
                    /\ call.outcome.worst_scenario = << >>

(***************************************************************************)
(* IBKRConnectionManager (data_collection/ibkr_connection.py): connect,    *)
(* ensure_connected and disconnect of one manager used by one task; the    *)
(* gateway accepts or refuses each connectAsync and may drop the session   *)
(* between calls.  Delays are in seconds.                                  *)
(***************************************************************************)
MaxAttempts == 3

MaxDelay == 2

\* 2 ** attempt
PowerOfTwo(attempt) == 2 ^ attempt

\* __init__: self.ib = IB(), self._connected = False
NewManager(reconnect_attempts, reconnect_delay) ==
    [ op |-> "none",
      reconnect_attempts |-> reconnect_attempts,
      reconnect_delay |-> reconnect_delay,
      ib_connected |-> FALSE,
      connected_flag |-> FALSE,
      handler |-> FALSE,
      attempts |-> 0,
      failed |-> 0,
      sleeps |-> << >>,
      returned |-> << >> ]

ConnectionInit ==
    /\ call \in {NewManager(n, d) : n \in 0..MaxAttempts, d \in 1..MaxDelay}
    /\ positions = << >>
    /\ now = 0
    /\ pc = "idle"
    /\ index = 0
    /\ results = << >>

\* The manager entering the for loop of connect() under the name of the
\* coroutine the caller awaited
EnterConnect(op) ==
    [call EXCEPT !.op = op, !.attempts = 0, !.failed = 0, !.sleeps = << >>,
                 !.returned = << >>]

\* await connect()
ConnectCall ==
    /\ pc = "idle"
    /\ call' = EnterConnect("connect")
    /\ index' = 0
    /\ pc' = "for"
    /\ UNCHANGED << positions, now, results >>

\* await ensure_connected() on a connected session: return True
EnsureConnectedHolds ==
    /\ pc = "idle"
    /\ call.ib_connected
    /\ call' = [EnterConnect("ensure_connected") EXCEPT !.returned = << TRUE >>]
    /\ UNCHANGED << positions, now, pc, index, results >>

\* await ensure_connected() on a lost session: return await self.connect()
EnsureConnectedReconnects ==
    /\ pc = "idle"
    /\ ~call.ib_connected
    /\ call' = EnterConnect("ensure_connected")
    /\ index' = 0
    /\ pc' = "for"
    /\ UNCHANGED << positions, now, results >>

\* One iteration on a session that is connected: the if is skipped, nothing
\* is raised and the loop goes on
IterationSkipped ==
    /\ pc = "for"
    /\ index < call.reconnect_attempts
    /\ call.ib_connected
    /\ index' = index + 1
    /\ UNCHANGED << positions, now, pc, results, call >>

\* One iteration in which connectAsync succeeds: return True
AttemptSucceeds ==
    /\ pc = "for"
    /\ index < call.reconnect_attempts
    /\ ~call.ib_connected
    /\ call' = [call EXCEPT !.ib_connected = TRUE, !.connected_flag = TRUE,
                            !.handler = TRUE, !.attempts = @ + 1,
                            !.returned = << TRUE >>]
    /\ pc' = "idle"
    /\ index' = 0
    /\ UNCHANGED << positions, now, results >>

\* One iteration in which connectAsync raises before the last attempt:
\* asyncio.sleep(reconnect_delay * 2 ** attempt)
AttemptFailsAndSleeps ==
    /\ pc = "for"
    /\ index < call.reconnect_attempts - 1
    /\ ~call.ib_connected
    /\ call' = [call EXCEPT !.attempts = @ + 1, !.failed = @ + 1,
                            !.sleeps = Append(@, call.reconnect_delay
                                                  * PowerOfTwo(index))]
    /\ index' = index + 1
    /\ UNCHANGED << positions, now, pc, results >>

\* The last iteration in which connectAsync raises: return False
LastAttemptFails ==
    /\ pc = "for"
    /\ index < call.reconnect_attempts
    /\ ~(index < call.reconnect_attempts - 1)
    /\ ~call.ib_connected
    /\ call' = [call EXCEPT !.attempts = @ + 1, !.failed = @ + 1,
                            !.returned = << FALSE >>]
    /\ pc' = "idle"
    /\ index' = 0
    /\ UNCHANGED << positions, now, results >>

\* The range is used up: return False
ConnectFallsThrough ==
    /\ pc = "for"
    /\ ~(index < call.reconnect_attempts)
    /\ call' = [call EXCEPT !.returned = << FALSE >>]
    /\ pc' = "idle"
    /\ index' = 0
    /\ UNCHANGED << positions, now, results >>

\* disconnect()
Disconnect ==
    /\ pc = "idle"
    /\ call' = IF call.ib_connected
               THEN [call EXCEPT !.op = "disconnect", !.ib_connected = FALSE,
                                 !.connected_flag = FALSE, !.returned = << >>]
               ELSE [call EXCEPT !.op = "disconnect", !.returned = << >>]
    /\ UNCHANGED << positions, now, pc, index, results >>

\* The gateway drops the session between two calls: disconnectedEvent fires
\* _on_disconnect
SessionLost ==
    /\ pc = "idle"
    /\ call.ib_connected
    /\ call' = [call EXCEPT !.op = "disconnectedEvent", !.ib_connected = FALSE,
                            !.connected_flag = IF call.handler THEN FALSE ELSE @,
                            !.returned = << >>]
    /\ UNCHANGED << positions, now, pc, index, results >>

ConnectionNext ==
    \/ ConnectCall
    \/ EnsureConnectedHolds
    \/ EnsureConnectedReconnects
    \/ IterationSkipped
    \/ AttemptSucceeds
    \/ AttemptFailsAndSleeps
    \/ LastAttemptFails
    \/ ConnectFallsThrough
    \/ Disconnect
    \/ SessionLost

ConnectionSpec == ConnectionInit /\ [][ConnectionNext]_vars

\* connect() or ensure_connected() has returned
ConnectionReturned ==
    /\ call.op \in {"connect", "ensure_connected"}
    /\ call.returned # << >>

\* The delays slept so far are reconnect_delay * 2^attempt for attempt 0, 1, ...
BackoffSchedule ==
    call.sleeps = [k \in 1..Len(call.sleeps) |->
                      call.reconnect_delay * PowerOfTwo(k - 1)]

\* C29: connect makes at most reconnect_attempts attempts, sleeps
\* reconnect_delay * 2^attempt after each failed attempt except the last,
\* and it and ensure_connected return True exactly when the session is
\* connected on return
C29_TruthfulConnection ==
    ConnectionReturned =>
        /\ call.attempts <= call.reconnect_attempts
        /\ BackoffSchedule
        /\ Len(call.sleeps)
              = call.failed - (IF call.failed = call.reconnect_attempts
                                     /\ call.failed > 0 THEN 1 ELSE 0)
        /\ call.returned[1] = call.ib_connected

\* The same without what is returned
C29_AttemptsAndBackoff ==
    ConnectionReturned =>
        /\ call.attempts <= call.reconnect_attempts
        /\ BackoffSchedule
        /\ Len(call.sleeps)
              = call.failed - (IF call.failed = call.reconnect_attempts
                                     /\ call.failed > 0 THEN 1 ELSE 0)

\* ensure_connected alone returns True exactly when the session is connected
C29_EnsureConnectedTruthful ==
    (ConnectionReturned /\ call.op = "ensure_connected") =>
        call.returned[1] = call.ib_connected

(***************************************************************************)
(* RealTimeMonitor.start_monitoring (automation/scheduler.py): the loop    *)
(* as a coroutine that is suspended in each awaited callback and in each   *)
(* sleep.  Time is in ticks of 10 seconds and passes in the sleeps; a      *)
(* callback returns or raises within the tick it was called in.  The       *)
(* last_* fields hold the age of the timestamp, capped at its interval.    *)
(***************************************************************************)
MaxInterval == 4

ShortSleep == 1

LongSleep == 3

\* __init__: monitoring = False, the three timestamps None
NewMonitor(update_interval, scenario_interval) ==
    [ op |-> "none",
      monitoring |-> FALSE,
      update_interval |-> update_interval,
      scenario_interval |-> scenario_interval,
      last_update |-> << >>,
      last_scenario_run |-> << >>,
      last_snapshot |-> << >> ]

MonitorInit ==
    /\ call \in {NewMonitor(u, v) : u \in 1..MaxInterval, v \in 1..MaxInterval}
    /\ positions = << >>
    /\ now = 0
    /\ pc = "idle"
    /\ index = 0
    /\ results = << >>

\* last is None or (current_time - last).total_seconds() >= interval
Due(last, interval) == IF last = << >> THEN TRUE ELSE last[1] >= interval

\* A timestamp after `ticks` more ticks
Aged(last, ticks, interval) ==
    IF last = << >> THEN << >>
    ELSE << IF last[1] + ticks > interval THEN interval ELSE last[1] + ticks >>

\* The monitor after asyncio.sleep of `ticks`
AfterSleep(m, ticks) ==
    [m EXCEPT !.last_update = Aged(@, ticks, m.update_interval),
              !.last_scenario_run = Aged(@, ticks, m.scenario_interval),
              !.last_snapshot = Aged(@, ticks, m.scenario_interval)]

\* start_monitoring(...): self.monitoring = True
StartMonitoring ==
    /\ pc \in {"idle", "returned"}
    /\ call' = [call EXCEPT !.op = "start_monitoring", !.monitoring = TRUE]
    /\ pc' = "while"
    /\ UNCHANGED << positions, now, index, results >>

\* while self.monitoring
WhileMonitoring ==
    /\ pc = "while"
    /\ pc' = IF call.monitoring THEN "update" ELSE "returned"
    /\ UNCHANGED << positions, now, index, results, call >>

\* The update is due: await update_callback()
UpdateCalled ==
    /\ pc = "update"
    /\ Due(call.last_update, call.update_interval)
    /\ pc' = "in_update"
    /\ UNCHANGED << positions, now, index, results, call >>

UpdateNotDue ==
    /\ pc = "update"
    /\ ~Due(call.last_update, call.update_interval)
    /\ pc' = "scenario"
    /\ UNCHANGED << positions, now, index, results, call >>

\* update_callback returned: self.last_update = current_time
UpdateReturns ==
    /\ pc = "in_update"
    /\ call' = [call EXCEPT !.last_update = << 0 >>]
    /\ pc' = "scenario"
    /\ UNCHANGED << positions, now, index, results >>

\* update_callback raised: the rest of the try block is left
UpdateRaises ==
    /\ pc = "in_update"
    /\ pc' = "except"
    /\ UNCHANGED << positions, now, index, results, call >>

\* The scenario run is due: await scenario_callback()
ScenarioCalled ==
    /\ pc = "scenario"
    /\ Due(call.last_scenario_run, call.scenario_interval)
    /\ pc' = "in_scenario"
    /\ UNCHANGED << positions, now, index, results, call >>

ScenarioNotDue ==
    /\ pc = "scenario"
    /\ ~Due(call.last_scenario_run, call.scenario_interval)
    /\ pc' = "snapshot"
    /\ UNCHANGED << positions, now, index, results, call >>

ScenarioReturns ==
    /\ pc = "in_scenario"
    /\ call' = [call EXCEPT !.last_scenario_run = << 0 >>]
    /\ pc' = "snapshot"
    /\ UNCHANGED << positions, now, index, results >>

ScenarioRaises ==
    /\ pc = "in_scenario"
    /\ pc' = "except"
    /\ UNCHANGED << positions, now, index, results, call >>

\* The snapshot is due: await snapshot_callback()
SnapshotCalled ==
    /\ pc = "snapshot"
    /\ Due(call.last_snapshot, call.scenario_interval)
    /\ pc' = "in_snapshot"
    /\ UNCHANGED << positions, now, index, results, call >>

SnapshotNotDue ==
    /\ pc = "snapshot"
    /\ ~Due(call.last_snapshot, call.scenario_interval)
    /\ pc' = "sleep"
    /\ UNCHANGED << positions, now, index, results, call >>

SnapshotReturns ==
    /\ pc = "in_snapshot"
    /\ call' = [call EXCEPT !.last_snapshot = << 0 >>]
    /\ pc' = "sleep"
    /\ UNCHANGED << positions, now, index, results >>

SnapshotRaises ==
    /\ pc = "in_snapshot"
    /\ pc' = "except"
    /\ UNCHANGED << positions, now, index, results, call >>

\* await asyncio.sleep(10) at the end of the try block
SleepBeforeNextIteration ==
    /\ pc = "sleep"
    /\ call' = AfterSleep(call, ShortSleep)
    /\ pc' = "while"
    /\ UNCHANGED << positions, now, index, results >>

\* except Exception: await asyncio.sleep(30)
SleepBeforeRetrying ==
    /\ pc = "except"
    /\ call' = AfterSleep(call, LongSleep)
    /\ pc' = "while"
    /\ UNCHANGED << positions, now, index, results >>

\* stop_monitoring() from another task while the loop is suspended
StopMonitoring ==
    /\ pc \in {"in_update", "in_scenario", "in_snapshot", "sleep", "except"}
    /\ call.monitoring
    /\ call' = [call EXCEPT !.monitoring = FALSE]
    /\ UNCHANGED << positions, now, pc, index, results >>

\* The steps of the coroutine once started
MonitoringLoop ==
    \/ WhileMonitoring
    \/ UpdateCalled
    \/ UpdateNotDue
    \/ UpdateReturns
    \/ UpdateRaises
    \/ ScenarioCalled
    \/ ScenarioNotDue
    \/ ScenarioReturns
    \/ ScenarioRaises
    \/ SnapshotCalled
    \/ SnapshotNotDue
    \/ SnapshotReturns
    \/ SnapshotRaises
    \/ SleepBeforeNextIteration
    \/ SleepBeforeRetrying

MonitorNext ==
    \/ StartMonitoring
    \/ StopMonitoring
    \/ MonitoringLoop

MonitorSpec == MonitorInit /\ [][MonitorNext]_vars

\* The event loop resumes the coroutine: every callback returns or raises
\* and every sleep ends
MonitorFairSpec == MonitorSpec /\ WF_vars(MonitoringLoop)

\* C30: while monitoring stays true, the scenario callback and the snapshot
\* callback are each invoked again and again, whatever the callbacks raise
C30_MonitoringProgress ==
    <>[](call.monitoring) =>
        /\ []<>(pc = "in_scenario")
        /\ []<>(pc = "in_snapshot")

\* The same in the runs in which no callback raises
C30_ProgressWithoutFailures ==
    (<>[](call.monitoring) /\ [](pc # "except")) =>
        /\ []<>(pc = "in_scenario")
        /\ []<>(pc = "in_snapshot")

\* The update callback is tried again and again while monitoring stays true
C30_UpdateRetried ==
    <>[](call.monitoring) => []<>(pc = "in_update")

====
